---- MODULE Spec2Model ----
(***************************************************************************)
(* A model of the youki container runtime core: the three-stage creation   *)
(* handshake (container_main_process and its typed channels), the          *)
(* container status refresh, the container root creation of the init       *)
(* builder, the cgroup v1 freezer retry loop, and the resource controllers *)
(* of the cgroup v2 and systemd backends.                                   *)
(*                                                                         *)
(* Each part has its own variables and its own specification; the          *)
(* variables of the other parts stay at their idle values.                 *)
(***************************************************************************)
EXTENDS Integers, Sequences, FiniteSets, TLC

VARIABLES
    \* ---- creation handshake (container_main_proc.rs, channel.rs) ----
    container_args,     \* the parts of ContainerArgs the handshake reads
    main_pc,            \* position of container_main_process
    main_result,        \* what container_main_process returned
    main_open,          \* channel endpoints main still holds open
    initPid,            \* pid received with IntermediateReady (0: none)
    need_to_clean_up_intel_rdt_subdirectory,
    main_chan,          \* messages in flight to the main receiver
    inter_chan,         \* messages in flight to the intermediate receiver
    init_chan,          \* messages in flight to the init receiver
    inter_pc,           \* position of the intermediate process
    init_pc,            \* position of the init process
    proc_writes,        \* files of /proc/<intermediatePid> written so far, in order
    resctrl,            \* the resctrl group directory of this container
    log,                \* what main has done so far, in order
    wait_status,        \* outcome of waitpid(intermediatePid)
    hist,               \* history: which stage failed, and when
    creation,           \* the caller of container_main_process
    \* ---- typed receives (channel.rs) ----
    rcv,
    \* ---- container status (container.rs) ----
    state,              \* Container.state: status and pid
    procs,              \* what owns each pid at the moment
    last,               \* the last operation on the container and what it saw
    \* ---- container root creation (init_builder.rs) ----
    fs_dir,             \* does <root>/<id> exist
    fs_state,           \* content of <root>/<id>/state.json (0: no file)
    build_pc,           \* position of each build
    build_result,
    \* ---- cgroup v1 freezer (freezer.rs) ----
    frz,
    \* ---- cgroup resource controllers (libcgroups v2 and systemd) ----
    dev,                \* a device program: its rules, its code and a run of it
    memcg,              \* a v2 memory apply: its request, the files, its result
    cpu,                \* a cpu request, its v2 weight and its systemd properties
    cset,               \* a systemd cpuset / unified request and its outcome
    \* ---- further functions, each with the request it is called with ----
    uni,                \* the unified dispatchers (v2 and systemd)
    ctl,                \* controller applies, once and twice
    rdt,                \* setup_intel_rdt on the resctrl groups
    fg,                 \* youki run: the foreground wait
    vid,                \* ContainerBuilder::validate_id
    ns,                 \* Namespaces::apply_namespaces
    mnt,                \* parse_mount
    umask               \* Device::create_devices and the process umask

hvars == <<container_args, main_pc, main_result, main_open, initPid,
           need_to_clean_up_intel_rdt_subdirectory, main_chan, inter_chan,
           init_chan, inter_pc, init_pc, proc_writes, resctrl, log,
           wait_status, hist, creation>>
rvars == <<rcv>>
cvars == <<state, procs, last>>
bvars == <<fs_dir, fs_state, build_pc, build_result>>
fvars == <<frz>>
gvars == <<dev, memcg, cpu, cset>>
xvars == <<uni, ctl, rdt, fg, vid, ns, mnt, umask>>
vars == <<hvars, rvars, cvars, bvars, fvars, gvars, xvars>>

(***************************************************************************)
(* Messages (the closed tagged union carried by the three channels).       *)
(***************************************************************************)
Tags == {"IntermediateReady", "InitReady", "WriteMapping", "MappingWritten",
         "SeccompNotify", "SeccompNotifyDone", "ExecFailed", "OtherError"}

\* The init pids the intermediate may report.
Pids == {7, 8}

\* A message: its tag, the pid of IntermediateReady (0 otherwise), and the
\* number of file descriptors attached to it.
Msg(tag, pid, fds) == [tag |-> tag, pid |-> pid, fds |-> fds]

Messages == {Msg(t, 0, 0) : t \in Tags \ {"IntermediateReady"}}
            \cup {Msg("IntermediateReady", p, 0) : p \in Pids}
            \cup {Msg("SeccompNotify", 0, 1)}

\* Result of a typed receive.
RecvOk(val) == [kind |-> "Ok", expected |-> "-", received |-> "-", val |-> val]
RecvErr(kind) == [kind |-> kind, expected |-> "-", received |-> "-", val |-> 0]
UnexpectedMessage(expected, msg) ==
    [kind |-> "UnexpectedMessage", expected |-> expected,
     received |-> msg.tag, val |-> 0]

\* A raw recv: either a message or a failure of the underlying channel
\* (the peer closed, EOF).
RecvFailed == [tag |-> "<recv error>", pid |-> 0, fds |-> 0]

wait_for_intermediate_ready(msg) ==
    IF msg = RecvFailed THEN RecvErr("ReceiveError")
    ELSE CASE msg.tag = "IntermediateReady" -> RecvOk(msg.pid)
           [] msg.tag = "ExecFailed" -> RecvErr("ExecError")
           [] msg.tag = "OtherError" -> RecvErr("OtherError")
           [] OTHER -> UnexpectedMessage("IntermediateReady", msg)

wait_for_mapping_request(msg) ==
    IF msg = RecvFailed THEN RecvErr("ReceiveError")
    ELSE IF msg.tag = "WriteMapping" THEN RecvOk(0)
    ELSE UnexpectedMessage("WriteMapping", msg)

\* The seccomp fd itself is not modelled: Ok carries the number 1.
wait_for_seccomp_request(msg) ==
    IF msg = RecvFailed THEN RecvErr("ReceiveError")
    ELSE IF msg.tag = "SeccompNotify"
         THEN IF msg.fds = 0 THEN RecvErr("MissingSeccompFds") ELSE RecvOk(1)
    ELSE UnexpectedMessage("SeccompNotify", msg)

\* wait_for_init_ready with OtherError given the special error of ExecFailed.
wait_for_init_ready_other_as_exec(msg) ==
    IF msg = RecvFailed THEN RecvErr("ReceiveError")
    ELSE CASE msg.tag = "InitReady" -> RecvOk(0)
           [] msg.tag \in {"ExecFailed", "OtherError"} -> RecvErr("ExecError")
           [] OTHER -> UnexpectedMessage("InitReady", msg)

wait_for_init_ready(msg) ==
    IF msg = RecvFailed THEN RecvErr("ReceiveError")
    ELSE CASE msg.tag = "InitReady" -> RecvOk(0)
           [] msg.tag = "ExecFailed" -> RecvErr("ExecError")
           [] OTHER -> UnexpectedMessage("InitReady", msg)

wait_for_mapping_ack(msg) ==
    IF msg = RecvFailed THEN RecvErr("ReceiveError")
    ELSE IF msg.tag = "MappingWritten" THEN RecvOk(0)
    ELSE UnexpectedMessage("MappingWritten", msg)

wait_for_seccomp_request_done(msg) ==
    IF msg = RecvFailed THEN RecvErr("ReceiveError")
    ELSE IF msg.tag = "SeccompNotifyDone" THEN RecvOk(0)
    ELSE UnexpectedMessage("SeccompNotifyDone", msg)

(***************************************************************************)
(* The creation handshake: container_main_process and its two peers.       *)
(***************************************************************************)
Endpoints == {"main_sender", "main_receiver", "inter_sender",
              "inter_receiver", "init_sender", "init_receiver"}

RdtKinds == {"none", "schema", "clos_id", "clos_id_schema"}

\* ContainerArgs: user_ns_config (present, and privileged or not), the
\* seccomp profile of spec.linux (absent, without or with a notify action)
\* and the intel_rdt section of spec.linux.
ContainerArgsValues ==
    {[userns |-> u, privileged |-> p, seccomp |-> s, intel_rdt |-> r] :
        u \in BOOLEAN, p \in BOOLEAN, s \in {"none", "filter", "notify"},
        r \in RdtKinds}

Ok(pid, flag) == [kind |-> "Ok", err |-> "-", pid |-> pid, flag |-> flag]
Err(e) == [kind |-> "Err", err |-> e, pid |-> 0, flag |-> FALSE]
NoResult == [kind |-> "none", err |-> "-", pid |-> 0, flag |-> FALSE]

\* setup_mapping with the write of deny moved after the write of uid_map.
setup_mapping_deny_late(privileged, failAt) ==
    IF failAt = "uid_map"
    THEN [writes |-> <<>>, err |-> "UserNamespace"]
    ELSE IF ~privileged /\ failAt = "setgroups"
    THEN [writes |-> <<"uid_map">>, err |-> "SetGroupsDeny"]
    ELSE LET deny == IF ~privileged THEN <<"setgroups">> ELSE <<>>
         IN  IF failAt = "gid_map"
             THEN [writes |-> <<"uid_map">> \o deny, err |-> "UserNamespace"]
             ELSE [writes |-> <<"uid_map">> \o deny \o <<"gid_map">>,
                   err |-> "-"]

\* setup_mapping: the files of /proc/<pid> it writes, in order, and its
\* result, when the write named by failAt fails.
setup_mapping(privileged, failAt) ==
    IF ~privileged /\ failAt = "setgroups"
    THEN [writes |-> <<>>, err |-> "SetGroupsDeny"]
    ELSE LET deny == IF ~privileged THEN <<"setgroups">> ELSE <<>>
         IN  IF failAt = "uid_map"
             THEN [writes |-> deny, err |-> "UserNamespace"]
             ELSE IF failAt = "gid_map"
             THEN [writes |-> deny \o <<"uid_map">>, err |-> "UserNamespace"]
             ELSE [writes |-> deny \o <<"uid_map", "gid_map">>, err |-> "-"]

\* write_container_pid_to_resctrl_tasks on the group directory rs.
write_container_pid_to_resctrl_tasks(rs, pid, only_clos_id_set, failAt) ==
    IF ~rs.dir /\ only_clos_id_set
    THEN [err |-> "NoClosIDDirectory", created_dir |-> FALSE, rs |-> rs]
    ELSE IF ~rs.dir /\ failAt = "create_dir"
    THEN [err |-> "CreateClosIDDirectory", created_dir |-> FALSE, rs |-> rs]
    ELSE LET created == ~rs.dir
             rs1 == [rs EXCEPT !.dir = TRUE,
                               !.by_main = IF created THEN TRUE ELSE @]
         IN  IF failAt = "tasks"
             THEN [err |-> "WriteClosIDDirectory", created_dir |-> created,
                   rs |-> rs1]
             ELSE [err |-> "-", created_dir |-> created,
                   rs |-> [rs1 EXCEPT !.tasks = pid]]

\* write_resctrl_schemata without the comparison with the existing schemata.
write_resctrl_schemata_uncompared(rs, has_schema, clos_id_was_set, created_dir, failAt) ==
    IF ~has_schema THEN [err |-> "-", rs |-> rs]
    ELSE IF failAt = "schemata" THEN [err |-> "WriteSchemata", rs |-> rs]
    ELSE [err |-> "-", rs |-> [rs EXCEPT !.schemata = "combined",
                                          !.same_schema = TRUE]]

\* write_resctrl_schemata: compare with, or write, the schemata file.
write_resctrl_schemata(rs, has_schema, clos_id_was_set, created_dir, failAt) ==
    IF ~has_schema THEN [err |-> "-", rs |-> rs]
    ELSE IF clos_id_was_set /\ ~created_dir
    THEN IF failAt = "schemata" THEN [err |-> "ReadSchemata", rs |-> rs]
         ELSE IF ~rs.same_schema
         THEN [err |-> "ExistingSchemataMismatch", rs |-> rs]
         ELSE [err |-> "-", rs |-> rs]
    ELSE IF failAt = "schemata" THEN [err |-> "WriteSchemata", rs |-> rs]
         ELSE [err |-> "-", rs |-> [rs EXCEPT !.schemata = "combined",
                                               !.same_schema = TRUE]]

\* setup_intel_rdt: its error, the flag it returns and the directory after.
setup_intel_rdt(intel_rdt, pid, rs, failAt) ==
    IF failAt = "mount"
    THEN [err |-> "ResctrlMountPointNotFound", flag |-> FALSE, rs |-> rs]
    ELSE LET clos_id_set == intel_rdt \in {"clos_id", "clos_id_schema"}
             has_schema == intel_rdt \in {"schema", "clos_id_schema"}
             only_clos_id_set == clos_id_set /\ ~has_schema
             t == write_container_pid_to_resctrl_tasks(rs, pid,
                                                      only_clos_id_set, failAt)
             w == write_resctrl_schemata(t.rs, has_schema, clos_id_set,
                                         t.created_dir, failAt)
         IN  IF t.err # "-" THEN [err |-> t.err, flag |-> FALSE, rs |-> t.rs]
             ELSE IF w.err # "-"
             THEN [err |-> w.err, flag |-> FALSE, rs |-> w.rs]
             ELSE [err |-> "-", flag |-> ~clos_id_set /\ t.created_dir,
                   rs |-> w.rs]

\* The resctrl group directory before the creation: absent, or present with
\* a schemata file that does or does not equal the combined schema.
ResctrlValues ==
    {[dir |-> d, by_main |-> FALSE, tasks |-> 0, schemata |-> "existing",
      same_schema |-> m] : d \in BOOLEAN, m \in BOOLEAN}

InterAlive == {"start", "wait_ack", "namespaces", "clone_init", "report",
               "exiting"}
InitAlive == {"start", "wait_done", "signal"}

\* Nothing has failed, nothing was reported yet.
NoHist == [inter_reported |-> FALSE, init_ready_sent |-> FALSE,
           inter_failed_before_report |-> FALSE,
           failed_before_init_ready |-> FALSE]

InitH ==
    /\ container_args \in {a \in ContainerArgsValues :
                              ~a.userns => ~a.privileged}
    /\ main_pc = "start"
    /\ main_result = NoResult
    /\ main_open = Endpoints
    /\ initPid = 0
    /\ need_to_clean_up_intel_rdt_subdirectory = FALSE
    /\ main_chan = <<>>
    /\ inter_chan = <<>>
    /\ init_chan = <<>>
    /\ inter_pc = "none"
    /\ init_pc = "none"
    /\ proc_writes = <<>>
    /\ resctrl \in {r \in ResctrlValues : ~r.dir => ~r.same_schema}
    /\ log = <<>>
    /\ wait_status = "none"
    /\ hist = NoHist
    /\ creation = [pc |-> "running", clean_up_intel_rdt_subdirectory |-> "None"]

IdleH ==
    /\ container_args = [userns |-> FALSE, privileged |-> FALSE,
                         seccomp |-> "none", intel_rdt |-> "none"]
    /\ main_pc = "idle"
    /\ main_result = NoResult
    /\ main_open = {}
    /\ initPid = 0
    /\ need_to_clean_up_intel_rdt_subdirectory = FALSE
    /\ main_chan = <<>>
    /\ inter_chan = <<>>
    /\ init_chan = <<>>
    /\ inter_pc = "none"
    /\ init_pc = "none"
    /\ proc_writes = <<>>
    /\ resctrl = [dir |-> FALSE, by_main |-> FALSE, tasks |-> 0,
                  schemata |-> "existing", same_schema |-> FALSE]
    /\ log = <<>>
    /\ wait_status = "none"
    /\ hist = NoHist
    /\ creation = [pc |-> "idle", clean_up_intel_rdt_subdirectory |-> "None"]

\* main returns Err(e): the function is left at once, nothing else changes.
Fail(e) ==
    /\ main_pc' = "error"
    /\ main_result' = Err(e)
    /\ log' = Append(log, <<"return", "Err">>)

\* main goes on to pc, having done the event ev.
Goto(pc, ev) ==
    /\ main_pc' = pc
    /\ main_result' = main_result
    /\ log' = Append(log, ev)

\* The senders of the main channel are all closed: main closed its copy and
\* no process that inherited a copy is alive or can still be cloned.
MainSendersClosed ==
    /\ "main_sender" \notin main_open
    /\ inter_pc \notin InterAlive
    /\ init_pc \notin InitAlive \cup {"running"}

\* A recv on the main receiver is possible: a message is queued, or every
\* sender is closed (the recv then fails).
MainCanRecv == main_chan # <<>> \/ MainSendersClosed
MainRecv == IF main_chan # <<>> THEN Head(main_chan) ELSE RecvFailed
MainChanAfterRecv == IF main_chan # <<>> THEN Tail(main_chan) ELSE main_chan

\* ---- main: container_main_process ----
\* What a step of the handshake leaves alone outside the handshake.
restH == <<rvars, cvars, bvars, fvars, gvars, xvars>>
hrest == <<container_args, hist, creation, restH>>

\* syscall.close_range(0), before the clone.
M_CloseRange ==
    /\ main_pc = "start"
    /\ \E ok \in BOOLEAN :
          IF ok THEN Goto("clone", <<"close_range", "-">>)
          ELSE Fail("SyscallOther")
    /\ UNCHANGED <<main_open, initPid, need_to_clean_up_intel_rdt_subdirectory,
                   main_chan, inter_chan, init_chan, inter_pc, init_pc,
                   proc_writes, resctrl, wait_status, hrest>>

\* clone::container_clone(cb): the intermediate process starts.
M_Clone ==
    /\ main_pc = "clone"
    /\ \E ok \in BOOLEAN :
          IF ok THEN /\ Goto("close_main_sender", <<"clone", "-">>)
                     /\ inter_pc' = "start"
          ELSE /\ Fail("IntermediateProcessFailed")
               /\ inter_pc' = inter_pc
    /\ UNCHANGED <<main_open, initPid, need_to_clean_up_intel_rdt_subdirectory,
                   main_chan, inter_chan, init_chan, init_pc,
                   proc_writes, resctrl, wait_status, hrest>>

\* <endpoint>.close()?, at position pc, going on to next.
M_Close(pc, endpoint, next) ==
    /\ main_pc = pc
    /\ \E ok \in BOOLEAN :
          IF ok THEN /\ Goto(next, <<"close", endpoint>>)
                     /\ main_open' = main_open \ {endpoint}
          ELSE /\ Fail("Channel")
               /\ main_open' = main_open
    /\ UNCHANGED <<initPid, need_to_clean_up_intel_rdt_subdirectory,
                   main_chan, inter_chan, init_chan, inter_pc, init_pc,
                   proc_writes, resctrl, wait_status, hrest>>

\* main going on without closing its copy of the main sender.
M_KeepMainSender ==
    /\ main_pc = "close_main_sender"
    /\ Goto(IF container_args.userns THEN "wait_mapping_request"
            ELSE "close_inter_sender", <<"close", "main_sender">>)
    /\ UNCHANGED <<main_open, initPid, need_to_clean_up_intel_rdt_subdirectory,
                   main_chan, inter_chan, init_chan, inter_pc, init_pc,
                   proc_writes, resctrl, wait_status, hrest>>

M_CloseMainSender ==
    M_Close("close_main_sender", "main_sender",
            IF container_args.userns THEN "wait_mapping_request"
            ELSE "close_inter_sender")

\* main_receiver.wait_for_mapping_request()?
M_WaitMappingRequest ==
    /\ main_pc = "wait_mapping_request"
    /\ MainCanRecv
    /\ LET r == wait_for_mapping_request(MainRecv)
       IN  IF r.kind = "Ok" THEN Goto("setup_mapping", <<"recv", "WriteMapping">>)
           ELSE Fail(r.kind)
    /\ main_chan' = MainChanAfterRecv
    /\ UNCHANGED <<main_open, initPid, need_to_clean_up_intel_rdt_subdirectory,
                   inter_chan, init_chan, inter_pc, init_pc,
                   proc_writes, resctrl, wait_status, hrest>>

\* setup_mapping(config, intermediatePid)?
M_SetupMapping ==
    /\ main_pc = "setup_mapping"
    /\ \E failAt \in {"none", "setgroups", "uid_map", "gid_map"} :
          LET r == setup_mapping(container_args.privileged, failAt)
          IN  /\ proc_writes' = proc_writes \o r.writes
              /\ IF r.err = "-"
                 THEN Goto("mapping_written", <<"setup_mapping", "-">>)
                 ELSE Fail(r.err)
    /\ UNCHANGED <<main_open, initPid, need_to_clean_up_intel_rdt_subdirectory,
                   main_chan, inter_chan, init_chan, inter_pc, init_pc,
                   resctrl, wait_status, hrest>>

\* inter_sender.mapping_written()?
M_MappingWritten ==
    /\ main_pc = "mapping_written"
    /\ \E ok \in BOOLEAN :
          IF ok THEN /\ Goto("close_inter_sender", <<"send", "MappingWritten">>)
                     /\ inter_chan' = Append(inter_chan, Msg("MappingWritten", 0, 0))
          ELSE /\ Fail("Channel")
               /\ inter_chan' = inter_chan
    /\ UNCHANGED <<main_open, initPid, need_to_clean_up_intel_rdt_subdirectory,
                   main_chan, init_chan, inter_pc, init_pc,
                   proc_writes, resctrl, wait_status, hrest>>

M_CloseInterSender ==
    M_Close("close_inter_sender", "inter_sender", "wait_intermediate_ready")

\* Where main goes after IntermediateReady: the seccomp exchange when the
\* profile has a notify action, then Intel RDT when configured, then the
\* close of the init sender.
AfterSeccomp ==
    IF container_args.intel_rdt # "none" THEN "setup_intel_rdt"
    ELSE "close_init_sender"
AfterIntermediateReady ==
    IF container_args.seccomp = "notify" THEN "wait_seccomp_request"
    ELSE AfterSeccomp

\* let initPid = main_receiver.wait_for_intermediate_ready()?
M_WaitIntermediateReady ==
    /\ main_pc = "wait_intermediate_ready"
    /\ MainCanRecv
    /\ LET r == wait_for_intermediate_ready(MainRecv)
       IN  IF r.kind = "Ok"
           THEN /\ Goto(AfterIntermediateReady, <<"recv", "IntermediateReady">>)
                /\ initPid' = r.val
           ELSE /\ Fail(r.kind)
                /\ initPid' = initPid
    /\ main_chan' = MainChanAfterRecv
    /\ UNCHANGED <<main_open, need_to_clean_up_intel_rdt_subdirectory,
                   inter_chan, init_chan, inter_pc, init_pc,
                   proc_writes, resctrl, wait_status, hrest>>

\* sync_seccomp, first half: main_receiver.wait_for_seccomp_request()?, then
\* the hand-over of the fd to the listener, which may fail.
M_WaitSeccompRequest ==
    /\ main_pc = "wait_seccomp_request"
    /\ MainCanRecv
    /\ LET r == wait_for_seccomp_request(MainRecv)
       IN  IF r.kind = "Ok"
           THEN \E listener_ok \in BOOLEAN :
                   IF listener_ok
                   THEN Goto("seccomp_notify_done", <<"recv", "SeccompNotify">>)
                   ELSE Fail("SeccompListener")
           ELSE Fail(r.kind)
    /\ main_chan' = MainChanAfterRecv
    /\ UNCHANGED <<main_open, initPid, need_to_clean_up_intel_rdt_subdirectory,
                   inter_chan, init_chan, inter_pc, init_pc,
                   proc_writes, resctrl, wait_status, hrest>>

\* sync_seccomp, second half: init_sender.seccomp_notify_done()?
M_SeccompNotifyDone ==
    /\ main_pc = "seccomp_notify_done"
    /\ \E ok \in BOOLEAN :
          IF ok THEN /\ Goto(AfterSeccomp, <<"send", "SeccompNotifyDone">>)
                     /\ init_chan' = Append(init_chan, Msg("SeccompNotifyDone", 0, 0))
          ELSE /\ Fail("Channel")
               /\ init_chan' = init_chan
    /\ UNCHANGED <<main_open, initPid, need_to_clean_up_intel_rdt_subdirectory,
                   main_chan, inter_chan, inter_pc, init_pc,
                   proc_writes, resctrl, wait_status, hrest>>

\* need_to_clean_up_intel_rdt_subdirectory = setup_intel_rdt(..)?
M_SetupIntelRdt ==
    /\ main_pc = "setup_intel_rdt"
    /\ \E failAt \in {"none", "mount", "create_dir", "tasks", "schemata"} :
          LET r == setup_intel_rdt(container_args.intel_rdt, initPid, resctrl,
                                   failAt)
          IN  /\ resctrl' = r.rs
              /\ IF r.err = "-"
                 THEN /\ Goto("close_init_sender", <<"setup_intel_rdt", "-">>)
                      /\ need_to_clean_up_intel_rdt_subdirectory' = r.flag
                 ELSE /\ Fail("IntelRdt")
                      /\ UNCHANGED need_to_clean_up_intel_rdt_subdirectory
    /\ UNCHANGED <<main_open, initPid, main_chan, inter_chan, init_chan,
                   inter_pc, init_pc, proc_writes, wait_status, hrest>>

\* main closing the init sender and going on without the wait for InitReady.
M_CloseInitSenderNoWait ==
    M_Close("close_init_sender", "init_sender", "close_inter_receiver")

M_CloseInitSender ==
    M_Close("close_init_sender", "init_sender", "wait_init_ready")

\* main_receiver.wait_for_init_ready()?
M_WaitInitReady ==
    /\ main_pc = "wait_init_ready"
    /\ MainCanRecv
    /\ LET r == wait_for_init_ready(MainRecv)
       IN  IF r.kind = "Ok" THEN Goto("close_inter_receiver", <<"recv", "InitReady">>)
           ELSE Fail(r.kind)
    /\ main_chan' = MainChanAfterRecv
    /\ UNCHANGED <<main_open, initPid, need_to_clean_up_intel_rdt_subdirectory,
                   inter_chan, init_chan, inter_pc, init_pc,
                   proc_writes, resctrl, wait_status, hrest>>

M_CloseInterReceiver ==
    M_Close("close_inter_receiver", "inter_receiver", "close_init_receiver")
M_CloseInitReceiver ==
    M_Close("close_init_receiver", "init_receiver", "close_main_receiver")
M_CloseMainReceiver ==
    M_Close("close_main_receiver", "main_receiver", "waitpid")

\* What waitpid(intermediatePid, None) may report once the intermediate has
\* ended as exit: its status, ECHILD when it was reaped elsewhere, or
\* another errno.
WaitStatuses(exit) == {exit, "ECHILD", "EINTR"}

\* The match on waitpid's result with ECHILD treated like any other errno.
WaitToleratedButEchild(ws) ==
    ws \in {"Exited0", "ExitedNonZero", "Signaled", "OtherStatus"}

\* The match on waitpid's result: TRUE when main goes on to return Ok.
WaitTolerated(ws) ==
    ws \in {"Exited0", "ExitedNonZero", "Signaled", "OtherStatus", "ECHILD"}

\* match waitpid(intermediatePid, None) { .. }, then the return.
M_Waitpid ==
    /\ main_pc = "waitpid"
    /\ inter_pc \in {"Exited0", "ExitedNonZero", "Signaled"}
    /\ \E ws \in WaitStatuses(inter_pc) :
          /\ wait_status' = ws
          /\ IF WaitTolerated(ws)
             THEN /\ main_pc' = "done"
                  /\ main_result' = Ok(initPid, need_to_clean_up_intel_rdt_subdirectory)
                  /\ log' = Append(log, <<"return", "Ok">>)
             ELSE Fail("WaitIntermediateProcess")
    /\ UNCHANGED <<main_open, initPid, need_to_clean_up_intel_rdt_subdirectory,
                   main_chan, inter_chan, init_chan, inter_pc, init_pc,
                   proc_writes, resctrl, hrest>>

Main ==
    \/ M_CloseRange \/ M_Clone \/ M_CloseMainSender
    \/ M_WaitMappingRequest \/ M_SetupMapping \/ M_MappingWritten
    \/ M_CloseInterSender \/ M_WaitIntermediateReady
    \/ M_WaitSeccompRequest \/ M_SeccompNotifyDone \/ M_SetupIntelRdt
    \/ M_CloseInitSender \/ M_WaitInitReady
    \/ M_CloseInterReceiver \/ M_CloseInitReceiver \/ M_CloseMainReceiver
    \/ M_Waitpid

\* ---- the intermediate process (the clone callback and the stage it runs) ----
prest == <<container_args, main_pc, main_result, main_open, initPid,
           need_to_clean_up_intel_rdt_subdirectory, proc_writes, resctrl, log,
           wait_status, creation, restH>>

\* With a user namespace: unshare it and main_sender.identifier_mapping_request().
I_RequestMapping ==
    /\ inter_pc = "start"
    /\ IF container_args.userns
       THEN /\ main_chan' = Append(main_chan, Msg("WriteMapping", 0, 0))
            /\ inter_pc' = "wait_ack"
       ELSE /\ main_chan' = main_chan
            /\ inter_pc' = "namespaces"
    /\ UNCHANGED <<inter_chan, init_chan, init_pc, hist, prest>>

\* inter_receiver.wait_for_mapping_ack(): fails when main closed the sender
\* without sending.
I_WaitMappingAck ==
    /\ inter_pc = "wait_ack"
    /\ inter_chan # <<>> \/ "inter_sender" \notin main_open
    /\ LET msg == IF inter_chan # <<>> THEN Head(inter_chan) ELSE RecvFailed
           r == wait_for_mapping_ack(msg)
       IN  IF r.kind = "Ok"
           THEN /\ inter_pc' = "namespaces"
                /\ main_chan' = main_chan
                /\ hist' = hist
           ELSE \* the callback reports the error to main and exits with -1
                /\ inter_pc' = "ExitedNonZero"
                /\ main_chan' = Append(main_chan, Msg("OtherError", 0, 0))
                /\ hist' = [hist EXCEPT !.inter_failed_before_report = TRUE,
                                        !.failed_before_init_ready = TRUE]
    /\ inter_chan' = IF inter_chan # <<>> THEN Tail(inter_chan) ELSE inter_chan
    /\ UNCHANGED <<init_chan, init_pc, prest>>

\* Enter the remaining namespaces.
I_Namespaces ==
    /\ inter_pc = "namespaces"
    /\ inter_pc' = "clone_init"
    /\ UNCHANGED <<main_chan, inter_chan, init_chan, init_pc, hist, prest>>

\* Clone the init process; it inherits the channel endpoints.
I_CloneInit ==
    /\ inter_pc = "clone_init"
    /\ inter_pc' = "report"
    /\ init_pc' = "start"
    /\ UNCHANGED <<main_chan, inter_chan, init_chan, hist, prest>>

\* main_sender.intermediate_ready(pid)
I_IntermediateReady ==
    /\ inter_pc = "report"
    /\ \E p \in Pids :
          main_chan' = Append(main_chan, Msg("IntermediateReady", p, 0))
    /\ inter_pc' = "exiting"
    /\ hist' = [hist EXCEPT !.inter_reported = TRUE]
    /\ UNCHANGED <<inter_chan, init_chan, init_pc, prest>>

\* The stage returns Ok and the process exits with 0.
I_Exit ==
    /\ inter_pc = "exiting"
    /\ inter_pc' = "Exited0"
    /\ UNCHANGED <<main_chan, inter_chan, init_chan, init_pc, hist, prest>>

\* The stage returns an error at any point: the callback tries
\* main_sender.send_error (only logging when that fails) and exits with -1.
I_Fail ==
    /\ inter_pc \in InterAlive
    /\ inter_pc' = "ExitedNonZero"
    /\ \E sent \in BOOLEAN :
          main_chan' = IF sent THEN Append(main_chan, Msg("OtherError", 0, 0))
                       ELSE main_chan
    /\ hist' = [hist EXCEPT
                  !.inter_failed_before_report = @ \/ ~hist.inter_reported,
                  !.failed_before_init_ready = @ \/ ~hist.init_ready_sent]
    /\ UNCHANGED <<inter_chan, init_chan, init_pc, prest>>

\* The process is killed by a signal: nothing is sent.
I_Killed ==
    /\ inter_pc \in InterAlive
    /\ inter_pc' = "Signaled"
    /\ hist' = [hist EXCEPT
                  !.inter_failed_before_report = @ \/ ~hist.inter_reported,
                  !.failed_before_init_ready = @ \/ ~hist.init_ready_sent]
    /\ UNCHANGED <<main_chan, inter_chan, init_chan, init_pc, prest>>

InterStep ==
    \/ I_RequestMapping \/ I_WaitMappingAck \/ I_Namespaces \/ I_CloneInit
    \/ I_IntermediateReady \/ I_Exit

\* ---- the init process ----
\* With a notify action in the profile: main_sender.seccomp_notify_request(fd).
N_SeccompNotify ==
    /\ init_pc = "start"
    /\ IF container_args.seccomp = "notify"
       THEN /\ main_chan' = Append(main_chan, Msg("SeccompNotify", 0, 1))
            /\ init_pc' = "wait_done"
       ELSE /\ main_chan' = main_chan
            /\ init_pc' = "signal"
    /\ UNCHANGED <<inter_chan, init_chan, inter_pc, hist, prest>>

\* init_receiver.wait_for_seccomp_request_done(); on an error the stage
\* fails and reports ExecFailed.
N_WaitSeccompDone ==
    /\ init_pc = "wait_done"
    /\ init_chan # <<>> \/ "init_sender" \notin main_open
    /\ LET msg == IF init_chan # <<>> THEN Head(init_chan) ELSE RecvFailed
           r == wait_for_seccomp_request_done(msg)
       IN  IF r.kind = "Ok"
           THEN /\ init_pc' = "signal"
                /\ main_chan' = main_chan
                /\ hist' = hist
           ELSE /\ init_pc' = "failed"
                /\ main_chan' = Append(main_chan, Msg("ExecFailed", 0, 0))
                /\ hist' = [hist EXCEPT !.failed_before_init_ready = TRUE]
    /\ init_chan' = IF init_chan # <<>> THEN Tail(init_chan) ELSE init_chan
    /\ UNCHANGED <<inter_chan, inter_pc, prest>>

\* main_sender.init_ready()
N_InitReady ==
    /\ init_pc = "signal"
    /\ main_chan' = Append(main_chan, Msg("InitReady", 0, 0))
    /\ init_pc' = "running"
    /\ hist' = [hist EXCEPT !.init_ready_sent = TRUE]
    /\ UNCHANGED <<inter_chan, init_chan, inter_pc, prest>>

\* The stage fails before InitReady: it reports ExecFailed when it still
\* can, and the process ends.
N_Fail ==
    /\ init_pc \in InitAlive
    /\ init_pc' = "failed"
    /\ \E sent \in BOOLEAN :
          main_chan' = IF sent THEN Append(main_chan, Msg("ExecFailed", 0, 0))
                       ELSE main_chan
    /\ hist' = [hist EXCEPT !.failed_before_init_ready = TRUE]
    /\ UNCHANGED <<inter_chan, init_chan, inter_pc, prest>>

InitStep == N_SeccompNotify \/ N_WaitSeccompDone \/ N_InitReady

\* ---- the caller of container_main_process ----
\* cleanup_container: the resctrl directory after the clean-up of a failed
\* creation, which removes the subdirectory when the container state says so.
cleanup_container(c, rs) ==
    IF c.clean_up_intel_rdt_subdirectory = "Some(true)"
    THEN [rs EXCEPT !.dir = FALSE] ELSE rs

\* The creation ends: on success the flag is recorded in the container
\* state; on failure the container is cleaned up.
C_Finish ==
    /\ creation.pc = "running"
    /\ main_pc \in {"done", "error"}
    /\ IF main_result.kind = "Ok"
       THEN /\ creation' = [pc |-> "created",
                            clean_up_intel_rdt_subdirectory |->
                               IF main_result.flag THEN "Some(true)"
                               ELSE "Some(false)"]
            /\ resctrl' = resctrl
       ELSE /\ creation' = [creation EXCEPT !.pc = "failed"]
            /\ resctrl' = cleanup_container(creation, resctrl)
    /\ UNCHANGED <<container_args, main_pc, main_result, main_open, initPid,
                   need_to_clean_up_intel_rdt_subdirectory, main_chan,
                   inter_chan, init_chan, inter_pc, init_pc, proc_writes, log,
                   wait_status, hist, restH>>

NextH ==
    \/ Main
    \/ InterStep \/ I_Fail \/ I_Killed
    \/ InitStep \/ N_Fail
    \/ C_Finish

(***************************************************************************)
(* The typed receives on their own: a channel that carries any message,    *)
(* and a receiver that applies each typed receive to what arrives.         *)
(***************************************************************************)
MaxQueue == 2

\* Everything a raw recv can return: a message of the union, SeccompNotify
\* without its fd, or nothing once the channel is closed.
Receivable == Messages \cup {Msg("SeccompNotify", 0, 0)}

NoRecv == [op |-> "none", msg |-> RecvFailed, result |-> RecvErr("none")]

InitR == rcv = [queue |-> <<>>, closed |-> FALSE, done |-> NoRecv]
IdleR == rcv = [queue |-> <<>>, closed |-> TRUE, done |-> NoRecv]

restR == <<hvars, cvars, bvars, fvars, gvars, xvars>>

\* A sender sends m.
R_Send ==
    /\ ~rcv.closed
    /\ Len(rcv.queue) < MaxQueue
    /\ \E m \in Receivable : rcv' = [rcv EXCEPT !.queue = Append(@, m)]
    /\ UNCHANGED restR

\* The last sender closes.
R_CloseSender ==
    /\ ~rcv.closed
    /\ rcv' = [rcv EXCEPT !.closed = TRUE]
    /\ UNCHANGED restR

\* What a raw recv returns now: the next message, or the failure of a recv
\* on a closed and drained channel.
RawRecv == IF rcv.queue # <<>> THEN Head(rcv.queue) ELSE RecvFailed

\* The receiver does the typed receive op, whose result on RawRecv is result.
R_Recv(op, result) ==
    /\ rcv.queue # <<>> \/ rcv.closed
    /\ rcv' = [rcv EXCEPT
                 !.queue = IF @ # <<>> THEN Tail(@) ELSE @,
                 !.done = [op |-> op, msg |-> RawRecv, result |-> result]]
    /\ UNCHANGED restR

R_wait_for_intermediate_ready ==
    R_Recv("wait_for_intermediate_ready", wait_for_intermediate_ready(RawRecv))
R_wait_for_mapping_request ==
    R_Recv("wait_for_mapping_request", wait_for_mapping_request(RawRecv))
R_wait_for_seccomp_request ==
    R_Recv("wait_for_seccomp_request", wait_for_seccomp_request(RawRecv))
R_wait_for_init_ready ==
    R_Recv("wait_for_init_ready", wait_for_init_ready(RawRecv))
R_wait_for_mapping_ack ==
    R_Recv("wait_for_mapping_ack", wait_for_mapping_ack(RawRecv))
R_wait_for_seccomp_request_done ==
    R_Recv("wait_for_seccomp_request_done", wait_for_seccomp_request_done(RawRecv))

NextR ==
    \/ R_Send \/ R_CloseSender
    \/ R_wait_for_intermediate_ready \/ R_wait_for_mapping_request
    \/ R_wait_for_seccomp_request \/ R_wait_for_init_ready
    \/ R_wait_for_mapping_ack \/ R_wait_for_seccomp_request_done

(***************************************************************************)
(* The container status: Container::set_status and refresh_status, the     *)
(* lifecycle operations that call set_status, and the processes that own   *)
(* the recorded pid over time.                                             *)
(***************************************************************************)
MaxPid == 2
CPids == 1..MaxPid

Statuses == {"Creating", "Created", "Running", "Stopped", "Paused"}
\* procfs ProcState of an existing process, reduced to the cases the code
\* distinguishes (Zombie, Dead, anything else).
ProcStates == {"Running", "Sleeping", "Zombie", "Dead"}

restC == <<hvars, rvars, bvars, fvars, gvars, xvars>>
NoOp == [op |-> "none", before |-> "Creating", pid |-> 0, found |-> FALSE,
         obs |-> "none", ok |-> TRUE]

InitC ==
    /\ state = [status |-> "Creating", pid |-> 0, created |-> FALSE]
    /\ procs = [p \in CPids |-> "none"]
    /\ last = NoOp
IdleC ==
    /\ state = [status |-> "Stopped", pid |-> 0, created |-> FALSE]
    /\ procs = [p \in CPids |-> "none"]
    /\ last = NoOp

\* Container::set_status: the status, and the creation time the first time
\* the status becomes Created.
set_status(st, status) ==
    [st EXCEPT !.status = status,
               !.created = IF status = "Created" /\ ~st.created THEN TRUE ELSE @]

\* The new status with Paused no longer preserved.
new_status_paused_lost(st, found, procstate) ==
    IF st.pid # 0
    THEN IF found
         THEN IF procstate \in {"Zombie", "Dead"} THEN "Stopped"
              ELSE IF st.status \in {"Creating", "Created"}
                   THEN st.status
                   ELSE "Running"
         ELSE "Stopped"
    ELSE "Stopped"

\* The new status refresh_status computes from the recorded pid, from
\* whether Process::new found the process, and from its state.
new_status(st, found, procstate) ==
    IF st.pid # 0
    THEN IF found
         THEN IF procstate \in {"Zombie", "Dead"} THEN "Stopped"
              ELSE IF st.status \in {"Creating", "Created", "Paused"}
                   THEN st.status
                   ELSE "Running"
         ELSE "Stopped"
    ELSE "Stopped"

\* Container::refresh_status (also the second half of Container::load). The
\* read of /proc/<pid>/stat can fail after Process::new found the process;
\* the call then returns the error and leaves the status as it was.
L_RefreshStatus ==
    /\ LET found == state.pid # 0 /\ procs[state.pid] # "none"
           obs == IF found THEN procs[state.pid] ELSE "none"
       IN  \E stat_ok \in BOOLEAN :
              /\ ~stat_ok => found
              /\ state' = IF stat_ok
                          THEN set_status(state, new_status(state, found, obs))
                          ELSE state
              /\ last' = [op |-> "refresh_status", before |-> state.status,
                          pid |-> state.pid, found |-> found, obs |-> obs,
                          ok |-> stat_ok]
    /\ UNCHANGED <<procs, restC>>

\* The creation completes: the init process runs under a free pid, the pid
\* is recorded and the status set to Created.
L_Created ==
    /\ state.status = "Creating"
    /\ \E p \in CPids :
          /\ procs[p] = "none"
          /\ procs' = [procs EXCEPT ![p] = "Sleeping"]
          /\ state' = set_status([state EXCEPT !.pid = p], "Created")
    /\ last' = [NoOp EXCEPT !.op = "create", !.before = state.status]
    /\ UNCHANGED restC

\* start, pause and resume: allowed by can_start, can_pause, can_resume.
L_Start ==
    /\ state.status = "Created"
    /\ state' = set_status(state, "Running")
    /\ last' = [NoOp EXCEPT !.op = "start", !.before = state.status]
    /\ UNCHANGED <<procs, restC>>
L_Pause ==
    /\ state.status = "Running"
    /\ state' = set_status(state, "Paused")
    /\ last' = [NoOp EXCEPT !.op = "pause", !.before = state.status]
    /\ UNCHANGED <<procs, restC>>
L_Resume ==
    /\ state.status = "Paused"
    /\ state' = set_status(state, "Running")
    /\ last' = [NoOp EXCEPT !.op = "resume", !.before = state.status]
    /\ UNCHANGED <<procs, restC>>

\* The system: a process changes state, exits, is reaped, and a free pid is
\* given to a new process.
P_Change ==
    \E p \in CPids, s \in ProcStates :
        /\ procs[p] \in {"Running", "Sleeping"}
        /\ s # procs[p]
        /\ procs' = [procs EXCEPT ![p] = s]
        /\ UNCHANGED <<state, last, restC>>
P_Reap ==
    \E p \in CPids :
        /\ procs[p] \in {"Zombie", "Dead"}
        /\ procs' = [procs EXCEPT ![p] = "none"]
        /\ UNCHANGED <<state, last, restC>>
P_Spawn ==
    \E p \in CPids :
        /\ procs[p] = "none"
        /\ procs' = [procs EXCEPT ![p] = "Running"]
        /\ UNCHANGED <<state, last, restC>>

NextC ==
    \/ L_RefreshStatus \/ L_Created \/ L_Start \/ L_Pause \/ L_Resume
    \/ P_Change \/ P_Reap \/ P_Spawn

(***************************************************************************)
(* The container root of the init builder: several builds (create / run)   *)
(* of one container id under one state root, each its own process.         *)
(***************************************************************************)
NumBuilds == 3
Builds == 1..NumBuilds

restB == <<hvars, rvars, cvars, fvars, gvars, xvars>>

InitB ==
    /\ fs_dir = FALSE
    /\ fs_state = 0
    /\ build_pc = [b \in Builds |-> "createContainerRoot"]
    /\ build_result = [b \in Builds |-> "none"]
IdleB ==
    /\ fs_dir = FALSE
    /\ fs_state = 0
    /\ build_pc = [b \in Builds |-> "idle"]
    /\ build_result = [b \in Builds |-> "none"]

\* createContainerRoot, the test: containerRootPath.exists().
B_Exists(b) ==
    /\ build_pc[b] = "createContainerRoot"
    /\ IF fs_dir
       THEN /\ build_pc' = [build_pc EXCEPT ![b] = "returned"]
            /\ build_result' = [build_result EXCEPT ![b] = "Exist"]
       ELSE /\ build_pc' = [build_pc EXCEPT ![b] = "create_dir_all"]
            /\ build_result' = build_result
    /\ UNCHANGED <<fs_dir, fs_state, restB>>

\* createContainerRoot, the creation: fs::create_dir_all, which succeeds
\* also when the directory is already there.
B_CreateDirAll(b) ==
    /\ build_pc[b] = "create_dir_all"
    /\ \E ok \in BOOLEAN :
          IF ok
          THEN /\ fs_dir' = TRUE
               /\ build_pc' = [build_pc EXCEPT ![b] = "createContainer"]
               /\ build_result' = build_result
          ELSE /\ fs_dir' = fs_dir
               /\ build_pc' = [build_pc EXCEPT ![b] = "returned"]
               /\ build_result' = [build_result EXCEPT ![b] = "OtherIO(create_dir_all)"]
    /\ UNCHANGED <<fs_state, restB>>

\* createContainer: Container::new and saveState2File, which writes the
\* state file of the id.
B_CreateContainer(b) ==
    /\ build_pc[b] = "createContainer"
    /\ \E ok \in BOOLEAN :
          IF ok
          THEN /\ fs_state' = b
               /\ build_pc' = [build_pc EXCEPT ![b] = "create"]
               /\ build_result' = build_result
          ELSE /\ fs_state' = fs_state
               /\ build_pc' = [build_pc EXCEPT ![b] = "returned"]
               /\ build_result' = [build_result EXCEPT ![b] = "OtherIO(state)"]
    /\ UNCHANGED <<fs_dir, restB>>

\* The rest of build: the config is saved, the container is created and the
\* state is read back.
B_Create(b) ==
    /\ build_pc[b] = "create"
    /\ \E ok \in BOOLEAN :
          build_result' = [build_result EXCEPT
                             ![b] = IF ok THEN "Ok" ELSE "Err"]
    /\ build_pc' = [build_pc EXCEPT ![b] = "returned"]
    /\ UNCHANGED <<fs_dir, fs_state, restB>>

NextB ==
    \E b \in Builds :
        \/ B_Exists(b) \/ B_CreateDirAll(b) \/ B_CreateContainer(b)
        \/ B_Create(b)

(***************************************************************************)
(* The cgroup v1 freezer: Freezer::apply(freezer_state, cgroup_root).      *)
(***************************************************************************)
\* One iteration too many (for i in 0..=1000).
MaxRetriesInclusive == 1000 + 1
MaxRetries == 1000
ThawEvery == 50
SleepEvery == 25

\* What a read of freezer.state may return: a state name, with or without
\* surrounding white space, or anything else.
restF == <<hvars, rvars, cvars, bvars, gvars, xvars>>
FreezerReads ==
    {[text |-> t, space |-> sp] :
        t \in {"FREEZING", "FROZEN", "THAWED", "?"}, sp \in BOOLEAN}
\* r.trim()
trim(r) == r.text

InitF ==
    frz \in {[pc |-> "apply", target |-> t, i |-> 0, r |-> "none",
              result |-> "none", frozen_writes |-> 0, thawed_writes |-> 0,
              reads |-> 0, last_written |-> "none", last_read |-> "none",
              earlier_reads_freezing |-> TRUE, freezing_reads |-> 0,
           sleeps |-> 0] :
             t \in {"Undefined", "Thawed", "Frozen"}}
IdleF ==
    frz = [pc |-> "idle", target |-> "Undefined", i |-> 0, r |-> "none",
           result |-> "none", frozen_writes |-> 0, thawed_writes |-> 0,
           reads |-> 0, last_written |-> "none", last_read |-> "none",
           earlier_reads_freezing |-> TRUE, freezing_reads |-> 0,
           sleeps |-> 0]

\* FreezerState::Undefined: nothing to do.
F_Undefined ==
    /\ frz.pc = "apply" /\ frz.target = "Undefined"
    /\ frz' = [frz EXCEPT !.pc = "returned", !.result = "Ok"]
    /\ UNCHANGED restF

\* FreezerState::Thawed: one write of THAWED.
F_Thawed ==
    /\ frz.pc = "apply" /\ frz.target = "Thawed"
    /\ \E ok \in BOOLEAN :
          frz' = [frz EXCEPT !.pc = "returned",
                             !.thawed_writes = @ + 1,
                             !.last_written = IF ok THEN "THAWED" ELSE @,
                             !.result = IF ok THEN "Ok" ELSE "WrappedIo"]
    /\ UNCHANGED restF

\* FreezerState::Frozen: the retry loop starts.
F_Frozen ==
    /\ frz.pc = "apply" /\ frz.target = "Frozen"
    /\ frz' = [frz EXCEPT !.pc = "loop"]
    /\ UNCHANGED restF

\* One iteration of the loop: the write of THAWED every 50th iteration
\* (its failure ignored), the write of FROZEN, the read of freezer.state
\* and the match on what was read.
F_Iteration ==
    /\ frz.pc = "loop" /\ frz.i < MaxRetries
    /\ LET thaw == frz.i % ThawEvery = ThawEvery - 1
           nap == frz.i % SleepEvery = SleepEvery - 1
       IN
       \E thaw_ok \in BOOLEAN, write_ok \in BOOLEAN, read_ok \in BOOLEAN,
          rd \in FreezerReads :
          /\ ~thaw => thaw_ok
          /\ ~write_ok => read_ok /\ rd = [text |-> "?", space |-> FALSE]
          /\ ~read_ok => rd = [text |-> "?", space |-> FALSE]
          /\ LET f0 == [frz EXCEPT
                          !.thawed_writes = IF thaw THEN @ + 1 ELSE @,
                          !.sleeps = IF thaw THEN @ + 1 ELSE @,
                          !.last_written = IF thaw /\ thaw_ok THEN "THAWED" ELSE @,
                          !.frozen_writes = @ + 1]
             IN  IF ~write_ok
                 THEN frz' = [f0 EXCEPT !.pc = "after", !.r = "WrappedIo"]
                 ELSE LET f1 == [f0 EXCEPT
                                   !.last_written = "FROZEN",
                                   !.sleeps = IF nap THEN @ + 1 ELSE @,
                                   !.reads = @ + 1,
                                   !.earlier_reads_freezing =
                                       @ /\ frz.last_read \in {"none", "FREEZING"}]
                      IN  IF ~read_ok
                          THEN frz' = [f1 EXCEPT !.pc = "after", !.r = "WrappedIo"]
                          ELSE LET f2 == [f1 EXCEPT !.last_read = trim(rd)]
                               IN  CASE trim(rd) = "FREEZING" ->
                                          frz' = [f2 EXCEPT !.i = @ + 1,
                                                            !.freezing_reads = @ + 1]
                                     [] trim(rd) = "FROZEN" ->
                                          frz' = [f2 EXCEPT !.pc = "after",
                                                            !.r = "Ok"]
                                     [] OTHER ->
                                          frz' = [f2 EXCEPT
                                                    !.pc = "after",
                                                    !.r = "UnexpectedState"]
    /\ UNCHANGED restF

\* The loop ran out of iterations.
F_Exhausted ==
    /\ frz.pc = "loop" /\ frz.i = MaxRetries
    /\ frz' = [frz EXCEPT !.pc = "after", !.r = "UnableToFreeze"]
    /\ UNCHANGED restF

\* After the loop with the failure of the last write of THAWED returned in
\* the place of r.
F_ReturnThawFailure ==
    /\ frz.pc = "after"
    /\ \E thaw_ok \in BOOLEAN :
          /\ frz.r = "Ok" => thaw_ok
          /\ frz' = [frz EXCEPT
                       !.pc = "returned",
                       !.result = IF thaw_ok THEN frz.r ELSE "WrappedIo",
                       !.thawed_writes = IF frz.r # "Ok" THEN @ + 1 ELSE @,
                       !.last_written = IF frz.r # "Ok" /\ thaw_ok
                                        THEN "THAWED" ELSE @]
    /\ UNCHANGED restF

\* After the loop: on an error one more write of THAWED, its failure
\* ignored; then r is returned.
F_Return ==
    /\ frz.pc = "after"
    /\ \E thaw_ok \in BOOLEAN :
          /\ frz.r = "Ok" => thaw_ok
          /\ frz' = [frz EXCEPT
                       !.pc = "returned",
                       !.result = frz.r,
                       !.thawed_writes = IF frz.r # "Ok" THEN @ + 1 ELSE @,
                       !.last_written = IF frz.r # "Ok" /\ thaw_ok
                                        THEN "THAWED" ELSE @]
    /\ UNCHANGED restF

NextF ==
    \/ F_Undefined \/ F_Thawed \/ F_Frozen \/ F_Iteration \/ F_Exhausted
    \/ F_Return

(***************************************************************************)
(* The cgroup v2 device controller: Program::from_rules compiles a list of *)
(* device rules to an eBPF program, and the program is run on a request.   *)
(*                                                                         *)
(* Machine words are little-endian sequences of 16-bit limbs, so that the  *)
(* 32-bit immediates and the 64-bit registers keep their width.            *)
(***************************************************************************)
Limb == 2^16

RECURSIVE BitAnd(_, _)
BitAnd(a, b) ==
    IF a = 0 \/ b = 0 THEN 0
    ELSE (a % 2) * (b % 2) + 2 * BitAnd(a \div 2, b \div 2)
BitOr(a, b) == a + b - BitAnd(a, b)

\* A u32 of value n, 0 <= n < 2^31.
U32(n) == <<n % Limb, n \div Limb>>
\* An i64 of value n, -2^16 < n < 2^31, in two's complement.
I64(n) ==
    IF n >= 0 THEN <<n % Limb, n \div Limb, 0, 0>>
    ELSE <<Limb + n, Limb - 1, Limb - 1, Limb - 1>>
\* The i64 of value 2^32 + n, 0 <= n < 2^31.
AboveU32(n) == <<n % Limb, n \div Limb, 1, 0>>
\* i64 >= 0: the sign bit is clear.
NonNegative(w) == w[4] < Limb \div 2

\* `x as i32` of an i64 or a u32: the low 32 bits.
as_i32(w) == <<w[1], w[2]>>
\* A 32-bit value in a 64-bit register, zero-extended and sign-extended.
ZeroExtend(w) == <<w[1], w[2], 0, 0>>
SignExtend(w) ==
    IF w[2] >= Limb \div 2 THEN <<w[1], w[2], Limb - 1, Limb - 1>>
    ELSE <<w[1], w[2], 0, 0>>
And32(w, imm) == <<BitAnd(w[1], imm[1]), BitAnd(w[2], imm[2]), 0, 0>>
\* Logical right shift of the low 32 bits by k, 0 <= k < 32.
Rsh32(w, k) ==
    IF k >= 16 THEN <<w[2] \div 2^(k - 16), 0, 0, 0>>
    ELSE <<(w[1] \div 2^k) + (w[2] % 2^k) * 2^(16 - k), w[2] \div 2^k, 0, 0>>

\* libbpf_sys: the device types and the access bits of bpf_cgroup_dev_ctx.
BPF_DEVCG_DEV_BLOCK == 1
BPF_DEVCG_DEV_CHAR == 2
BPF_DEVCG_ACC_MKNOD == 1
BPF_DEVCG_ACC_READ == 2
BPF_DEVCG_ACC_WRITE == 4

\* Option<T>: None is {}, Some(x) is {x}.
None == {}
Some(x) == {x}
unwrap(o) == CHOOSE x \in o : TRUE
unwrap_or(o, d) == IF o = None THEN d ELSE unwrap(o)

\* Result<T, ProgramError>.
DevOk(v) == [ok |-> TRUE, val |-> v, err |-> "-"]
DevErr(e) == [ok |-> FALSE, val |-> 0, err |-> e]

\* bpf_dev_type: the device type of the context, or the error of a type the
\* program cannot express.
bpf_dev_type(typ) ==
    CASE typ = "c" -> DevOk(BPF_DEVCG_DEV_CHAR)
      [] typ = "u" -> DevErr("DeviceNotSupported")
      [] typ = "b" -> DevOk(BPF_DEVCG_DEV_BLOCK)
      [] typ = "p" -> DevErr("DeviceNotSupported")
      [] typ = "a" -> DevErr("WildcardDevice")

\* bpf_access: the bits of an access string, character by character.
RECURSIVE bpf_access(_)
bpf_access(access) ==
    IF access = <<>> THEN DevOk(0)
    ELSE LET c == access[Len(access)]
             v == bpf_access(SubSeq(access, 1, Len(access) - 1))
         IN  IF ~v.ok THEN v
             ELSE CASE c = "r" -> DevOk(BitOr(v.val, BPF_DEVCG_ACC_READ))
                    [] c = "w" -> DevOk(BitOr(v.val, BPF_DEVCG_ACC_WRITE))
                    [] c = "m" -> DevOk(BitOr(v.val, BPF_DEVCG_ACC_MKNOD))
                    [] OTHER -> DevErr("InvalidAccess")

\* One eBPF instruction; imm is a 32-bit immediate.
Insn(op, dst, src, off, imm) ==
    [op |-> op, dst |-> dst, src |-> src, off |-> off, imm |-> imm]

\* Program::init: R2 <- type, R3 <- access, R4 <- major, R5 <- minor.
init ==
    << Insn("ldxw", 2, 1, 0, U32(0)),
       Insn("and32_imm", 2, 0, 0, <<Limb - 1, 0>>),
       Insn("ldxw", 3, 1, 0, U32(0)),
       Insn("rsh32_imm", 3, 0, 0, U32(16)),
       Insn("ldxw", 4, 1, 4, U32(0)),
       Insn("ldxw", 5, 1, 8, U32(0)) >>

\* Program::finalize: return default_allow.
finalize(default_allow) ==
    << Insn("mov32_imm", 0, 0, 0, U32(IF default_allow THEN 1 ELSE 0)),
       Insn("exit", 0, 0, 0, U32(0)) >>

has_major(rule) == rule.major # None /\ NonNegative(unwrap(rule.major))
has_minor(rule) == rule.minor # None /\ NonNegative(unwrap(rule.minor))

\* Program::add_rule: the instructions of one rule, or the error of
\* bpf_dev_type / bpf_access.
add_rule(rule) ==
    LET t == bpf_dev_type(unwrap_or(rule.typ, "a"))
        a == bpf_access(unwrap_or(rule.access, <<>>))
    IN
    IF ~t.ok THEN t
    ELSE IF ~a.ok THEN a
    ELSE
    LET dev_type == t.val
        access == a.val
        has_access == access # BitOr(BitOr(BPF_DEVCG_ACC_READ, BPF_DEVCG_ACC_WRITE),
                                     BPF_DEVCG_ACC_MKNOD)
        instruction_count ==
            1 + (IF has_access THEN 3 ELSE 0) + (IF has_major(rule) THEN 1 ELSE 0)
              + (IF has_minor(rule) THEN 1 ELSE 0) + 2
        off_type == instruction_count - 1
        off_access == off_type - (IF has_access THEN 3 ELSE 0)
        off_major == off_access - (IF has_major(rule) THEN 1 ELSE 0)
        off_minor == off_major - (IF has_minor(rule) THEN 1 ELSE 0)
    IN
    DevOk(
       << Insn("jne_imm", 2, 0, off_type, as_i32(U32(dev_type))) >>
    \o (IF has_access
        THEN << Insn("mov32_reg", 1, 3, 0, U32(0)),
                Insn("and32_imm", 1, 0, 0, as_i32(U32(access))),
                Insn("jne_reg", 1, 3, off_access, U32(0)) >>
        ELSE <<>>)
    \o (IF has_major(rule)
        THEN << Insn("jne_imm", 4, 0, off_major, as_i32(unwrap(rule.major))) >>
        ELSE <<>>)
    \o (IF has_minor(rule)
        THEN << Insn("jne_imm", 5, 0, off_minor, as_i32(unwrap(rule.minor))) >>
        ELSE <<>>)
    \o << Insn("mov32_imm", 0, 0, 0, U32(IF rule.allow THEN 1 ELSE 0)),
          Insn("exit", 0, 0, 0, U32(0)) >>)

\* The order of a from_rules that visits the rules first to last.
in_order(rules) == rules
\* The rules in the order from_rules visits them: rules.iter().rev().
rev(rules) == [i \in 1..Len(rules) |-> rules[Len(rules) + 1 - i]]

\* The loop of from_rules over the rules in the order given: the
\* instructions so far, or the error of the first rule that has one.
RECURSIVE add_rules(_, _)
add_rules(prog, ordered) ==
    IF ordered = <<>> THEN DevOk(prog)
    ELSE LET r == add_rule(Head(ordered))
         IN  IF ~r.ok THEN r
             ELSE add_rules(prog \o r.val, Tail(ordered))

\* Program::from_rules.
from_rules(rules, default_allow) ==
    LET prog == add_rules(init, rev(rules))
    IN  IF ~prog.ok THEN prog ELSE DevOk(prog.val \o finalize(default_allow))

\* bpf_cgroup_dev_ctx: the twelve bytes of the context, as three u32 at the
\* byte offsets 0, 4 and 8; the type is 0 when bpf_dev_type has none.
bpf_cgroup_dev_ctx(typ, major, minor, access) ==
    LET t == bpf_dev_type(typ)
        a == bpf_access(access)
    IN  IF ~a.ok THEN a
        ELSE DevOk([o \in {0, 4, 8} |->
                       CASE o = 0 -> <<IF t.ok THEN t.val % Limb ELSE 0, a.val>>
                         [] o = 4 -> major
                         [] o = 8 -> minor])

\* The interpreter (rbpf) on the instructions the compiler emits: pc is the
\* index of the next instruction, reg the registers R0..R5, each 64 bits
\* wide; R1 holds the address of the context, which is 0 here.
RECURSIVE execute_program(_, _, _, _)
execute_program(prog, mem, pc, reg) ==
    LET i == prog[pc]
        set(v) == [reg EXCEPT ![i.dst] = v]
    IN  CASE i.op = "exit" -> reg[0]
          [] i.op = "ldxw" ->
               execute_program(prog, mem, pc + 1,
                               set(ZeroExtend(mem[reg[i.src][1] + i.off])))
          [] i.op = "and32_imm" ->
               execute_program(prog, mem, pc + 1, set(And32(reg[i.dst], i.imm)))
          [] i.op = "rsh32_imm" ->
               execute_program(prog, mem, pc + 1, set(Rsh32(reg[i.dst], i.imm[1])))
          [] i.op = "mov32_imm" ->
               execute_program(prog, mem, pc + 1, set(ZeroExtend(i.imm)))
          [] i.op = "mov32_reg" ->
               execute_program(prog, mem, pc + 1, set(ZeroExtend(reg[i.src])))
          [] i.op = "jne_imm" ->
               execute_program(prog, mem,
                               IF reg[i.dst] # SignExtend(i.imm)
                               THEN pc + 1 + i.off ELSE pc + 1, reg)
          [] i.op = "jne_reg" ->
               execute_program(prog, mem,
                               IF reg[i.dst] # reg[i.src]
                               THEN pc + 1 + i.off ELSE pc + 1, reg)

\* Program::execute.
execute(prog, typ, major, minor, access) ==
    LET mem == bpf_cgroup_dev_ctx(typ, major, minor, access)
    IN  IF ~mem.ok THEN mem
        ELSE DevOk(execute_program(prog, mem.val, 1, [r \in 0..5 |-> I64(0)]))

\* ---- the rules and the requests of the model ----
MaxRules == 2

Rule(typ, major, minor, access, allow) ==
    [typ |-> typ, major |-> major, minor |-> minor, access |-> access,
     allow |-> allow]

\* c *:*, c 1:* (no minor given) and c 1:3, for r and for rwm; b *:* rwm;
\* c 4294967297:3 rwm; and a rule without a type, which is of type `a`.
DevRules ==
    { Rule(Some("c"), d[1], d[2], Some(a), allow) :
         d \in { <<Some(I64(-1)), Some(I64(-1))>>, <<Some(I64(1)), None>>,
                 <<Some(I64(1)), Some(I64(3))>> },
         a \in { <<"r">>, <<"r", "w", "m">> },
         allow \in BOOLEAN }
    \cup { Rule(Some("b"), Some(I64(-1)), Some(I64(-1)), Some(<<"r", "w", "m">>), allow) :
             allow \in BOOLEAN }
    \cup { Rule(Some("c"), Some(AboveU32(1)), Some(I64(3)), Some(<<"r", "w", "m">>), TRUE),
           Rule(None, None, None, None, TRUE) }

RECURSIVE RuleLists(_)
RuleLists(n) ==
    IF n = 0 THEN {<<>>}
    ELSE RuleLists(n - 1)
         \cup {Append(l, r) : l \in {x \in RuleLists(n - 1) : Len(x) = n - 1},
                              r \in DevRules}

Request(typ, major, minor, access) ==
    [typ |-> typ, major |-> major, minor |-> minor, access |-> access]
Requests ==
    { Request(t, U32(d[1]), U32(d[2]), a) :
         t \in {"c", "b", "p"},
         d \in { <<1, 3>>, <<1, 4>>, <<2, 3>> },
         a \in { <<"r">>, <<"w">> } }
NoRequest == Request("-", U32(0), U32(0), <<>>)

InitDev ==
    \E rules \in RuleLists(MaxRules), default_allow \in BOOLEAN :
        dev = [pc |-> "from_rules", rules |-> rules,
               default_allow |-> default_allow, prog |-> DevErr("-"),
               req |-> NoRequest, result |-> DevErr("-")]
IdleDev ==
    dev = [pc |-> "idle", rules |-> <<>>, default_allow |-> FALSE,
           prog |-> DevErr("-"), req |-> NoRequest, result |-> DevErr("-")]
restDev == <<hvars, rvars, cvars, bvars, fvars, memcg, cpu, cset, xvars>>

\* Program::from_rules(rules, default_allow).
D_FromRules ==
    /\ dev.pc = "from_rules"
    /\ dev' = [dev EXCEPT !.pc = "compiled",
                          !.prog = from_rules(dev.rules, dev.default_allow)]
    /\ UNCHANGED restDev

\* Program::execute on a request, of a program that was compiled.
D_Execute ==
    /\ dev.pc = "compiled"
    /\ dev.prog.ok
    /\ \E q \in Requests :
          dev' = [dev EXCEPT
                    !.pc = "executed",
                    !.req = q,
                    !.result = execute(dev.prog.val, q.typ, q.major, q.minor,
                                       q.access)]
    /\ UNCHANGED restDev

NextDev == D_FromRules \/ D_Execute

(***************************************************************************)
(* The cgroup v2 memory controller: Memory::apply(path, memory).           *)
(***************************************************************************)
MiB == 2^20

CGROUP_MEMORY_SWAP == "memory.swap.max"
CGROUP_MEMORY_MAX == "memory.max"
CGROUP_MEMORY_LOW == "memory.low"
MemoryFiles == {CGROUP_MEMORY_SWAP, CGROUP_MEMORY_MAX, CGROUP_MEMORY_LOW}

\* The state of an apply under way: the files of the cgroup, the writes
\* done, the number of writes tried and the result ("-" while it runs).
\* The write number fail_at fails (0: none does).
MemSt(files, writes, tried, result, fail_at) ==
    [files |-> files, writes |-> writes, tried |-> tried, result |-> result,
     fail_at |-> fail_at]

\* common::write_cgroup_file_str / write_cgroup_file: the file gets the
\* text, or the write fails and the apply returns WrappedIo.
write_cgroup_file_str(st, path, text) ==
    IF st.tried + 1 = st.fail_at
    THEN [st EXCEPT !.tried = @ + 1, !.result = "WrappedIo"]
    ELSE [st EXCEPT !.tried = @ + 1,
                    !.files = [@ EXCEPT ![path] = text],
                    !.writes = Append(@, <<path, text>>)]
write_cgroup_file(st, path, val) == write_cgroup_file_str(st, path, ToString(val))

\* A step of the apply that is reached only while no error was returned.
MemThen(st, next) == IF st.result # "-" THEN st ELSE next
MemReturn(st, result) == IF st.result # "-" THEN st ELSE [st EXCEPT !.result = result]

\* Memory::set.
memory_set(st, path, val) ==
    MemThen(st,
        IF val = 0 THEN st
        ELSE IF val = -1 THEN write_cgroup_file_str(st, path, "max")
        ELSE write_cgroup_file(st, path, val))

\* Memory::apply, the match on memory.limit().
memory_apply_limit(st, memory) ==
    IF memory.limit # None
    THEN LET limit == unwrap(memory.limit) IN
         IF limit < -1 THEN MemReturn(st, "MemoryValue")
         ELSE IF memory.swap # None
         THEN LET swap == unwrap(memory.swap) IN
              IF swap < -1 THEN MemReturn(st, "SwapValue")
              ELSE IF swap = -1 \/ limit = -1
                   THEN memory_set(memory_set(st, CGROUP_MEMORY_SWAP, swap),
                                   CGROUP_MEMORY_MAX, limit)
                   ELSE IF swap < limit THEN MemReturn(st, "SwapTooSmall")
                   ELSE memory_set(memory_set(st, CGROUP_MEMORY_SWAP, swap - limit),
                                   CGROUP_MEMORY_MAX, limit)
         ELSE memory_set(IF limit = -1
                         THEN memory_set(st, CGROUP_MEMORY_SWAP, -1)
                         ELSE st,
                         CGROUP_MEMORY_MAX, limit)
    ELSE IF memory.swap # None THEN MemReturn(st, "SwapWithoutLimit")
    ELSE st

\* Memory::apply, the reservation.
memory_apply_reservation(st, memory) ==
    MemThen(st,
        IF memory.reservation # None
        THEN LET reservation == unwrap(memory.reservation) IN
             IF reservation < -1 THEN MemReturn(st, "MemoryReservation")
             ELSE memory_set(st, CGROUP_MEMORY_LOW, reservation)
        ELSE st)

\* Memory::apply.
memory_apply(st, memory) ==
    IF memory.reservation = None /\ memory.limit = None /\ memory.swap = None
    THEN MemReturn(st, "Ok")
    ELSE MemReturn(memory_apply_reservation(memory_apply_limit(st, memory), memory),
                   "Ok")

\* ---- the requests of the model ----
MemoryValues == {None, Some(-2), Some(-1), Some(0), Some(100 * MiB),
                 Some(200 * MiB), Some(300 * MiB)}
LinuxMemory == [limit : MemoryValues, swap : MemoryValues,
                reservation : {None, Some(-2), Some(-1), Some(0), Some(100 * MiB)}]
\* The files before the apply.
MemoryFilesBefore ==
    [f \in MemoryFiles |-> IF f = CGROUP_MEMORY_LOW THEN "0" ELSE "max"]

InitMem ==
    \E memory \in LinuxMemory :
        memcg = [pc |-> "apply", memory |-> memory,
               st |-> MemSt(MemoryFilesBefore, <<>>, 0, "-", 0)]
IdleMem ==
    memcg = [pc |-> "idle",
           memory |-> [limit |-> None, swap |-> None, reservation |-> None],
           st |-> MemSt(MemoryFilesBefore, <<>>, 0, "-", 0)]

restMem == <<hvars, rvars, cvars, bvars, fvars, dev, cpu, cset, xvars>>

\* Memory::apply(path, memory); any one of its writes may fail.
Mem_Apply ==
    /\ memcg.pc = "apply"
    /\ \E fail_at \in 0..3 :
          LET st == memory_apply([memcg.st EXCEPT !.fail_at = fail_at], memcg.memory)
          IN  /\ fail_at # 0 => st.result = "WrappedIo"
              /\ memcg' = [memcg EXCEPT !.pc = "returned", !.st = st]
    /\ UNCHANGED restMem

NextMem == Mem_Apply

(***************************************************************************)
(* The cpu controllers of the v2 and systemd backends.                     *)
(*                                                                         *)
(* The values are u64 and i64; a natural number is held as the sequence of *)
(* its digits in base 2^10, lowest first and without high zeros, so that   *)
(* products up to 2^64 * 10^6 are exact and the wrap at 2^64 is explicit.  *)
(***************************************************************************)
Base == 2^10

RECURSIVE Norm(_)
Norm(d) ==
    IF d = <<>> THEN d
    ELSE IF d[Len(d)] = 0 THEN Norm(SubSeq(d, 1, Len(d) - 1)) ELSE d

\* The digits of n, 0 <= n < 2^31.
RECURSIVE FromNat(_)
FromNat(n) == IF n = 0 THEN <<>> ELSE <<n % Base>> \o FromNat(n \div Base)

\* The number of the digits d, below 2^31.
RECURSIVE ToNat(_)
ToNat(d) == IF d = <<>> THEN 0 ELSE Head(d) + Base * ToNat(Tail(d))

\* d * k + c, for 0 <= k <= 2^20 and 0 <= c <= 2^20.
RECURSIVE MulAdd(_, _, _)
MulAdd(d, k, c) ==
    IF d = <<>> THEN FromNat(c)
    ELSE LET t == Head(d) * k + c
         IN  <<t % Base>> \o MulAdd(Tail(d), k, t \div Base)
MulSmall(d, k) == Norm(MulAdd(d, k, 0))
AddSmall(d, c) == Norm(MulAdd(d, 1, c))

\* d - c, for 0 <= c < Base and d >= c.
RECURSIVE Borrow(_, _)
Borrow(d, c) ==
    IF c = 0 THEN d
    ELSE IF Head(d) >= c THEN <<Head(d) - c>> \o Tail(d)
    ELSE <<Head(d) + Base - c>> \o Borrow(Tail(d), 1)
SubSmall(d, c) == Norm(Borrow(d, c))

\* Quotient and remainder of d by k, for 0 < k < 2^21.
RECURSIVE DivMod(_, _)
DivMod(d, k) ==
    IF d = <<>> THEN [q |-> <<>>, r |-> 0]
    ELSE LET hi == DivMod(Tail(d), k)
             t == hi.r * Base + Head(d)
         IN  [q |-> <<t \div k>> \o hi.q, r |-> t % k]
\* A division that rounds up.
DivSmallRoundingUp(d, k) ==
    IF DivMod(d, k).r = 0 THEN Norm(DivMod(d, k).q)
    ELSE Norm(MulAdd(Norm(DivMod(d, k).q), 1, 1))
\* The division of u64: it rounds down.
DivSmall(d, k) == Norm(DivMod(d, k).q)

\* a < b and a <= b.
RECURSIVE LessFrom(_, _, _)
LessFrom(a, b, i) ==
    IF i = 0 THEN FALSE
    ELSE IF a[i] # b[i] THEN a[i] < b[i] ELSE LessFrom(a, b, i - 1)
Less(a, b) ==
    IF Len(a) # Len(b) THEN Len(a) < Len(b) ELSE LessFrom(a, b, Len(a))
Leq(a, b) == a = b \/ Less(a, b)

\* 2^k, and the value of d modulo 2^k.
Pow2(k) ==
    [i \in 1..(k \div 10) + 1 |-> IF i = (k \div 10) + 1 THEN 2^(k % 10) ELSE 0]
ModPow2(d, k) ==
    Norm([i \in 1..(IF Len(d) < (k \div 10) + 1 THEN Len(d) ELSE (k \div 10) + 1) |->
             IF i = (k \div 10) + 1 THEN d[i] % 2^(k % 10) ELSE d[i]])

\* u64: the largest value, the wrap of an exact result, and whether the
\* exact result is out of range.
U64_MAX == SubSmall(Pow2(64), 1)
Wrap64(d) == ModPow2(d, 64)
Overflows64(d) == d # Wrap64(d)

\* The outcomes of a u64 operation of exact result d: the value, or when
\* d is out of range the panic of a build with overflow checks and the
\* wrapped value of a build without.
Value(d) == [panic |-> FALSE, val |-> d]
Panic == [panic |-> TRUE, val |-> <<>>]
Checked64(d) == IF Overflows64(d) THEN {Panic, Value(Wrap64(d))} ELSE {Value(d)}

\* u64::saturating_sub(c), for 0 <= c < Base.
saturating_sub(d, c) == IF Less(d, FromNat(c)) THEN <<>> ELSE SubSmall(d, c)
\* u64::min.
min(a, b) == IF Less(b, a) THEN b ELSE a

\* A largest weight that is one too large.
MAX_CPU_WEIGHT_PLUS_ONE == 10000 + 1
MAX_CPU_WEIGHT == 10000

\* v2 Cpu::convert_shares_to_cgroup2: the outcomes for the shares.
Cpu_convert_shares_to_cgroup2(shares) ==
    IF shares = <<>> THEN {Value(<<>>)}
    ELSE { IF p.panic THEN Panic
           ELSE Value(min(AddSmall(DivSmall(p.val, 262142), 1),
                          FromNat(MAX_CPU_WEIGHT))) :
             p \in Checked64(MulSmall(saturating_sub(shares, 2), 9999)) }

\* systemd convert_shares_to_cgroup2: the outcomes for the shares.
convert_shares_to_cgroup2(shares) ==
    IF shares = <<>> THEN {Value(<<>>)}
    ELSE { IF p.panic THEN Panic
           ELSE Value(AddSmall(DivSmall(p.val, 262142), 1)) :
             p \in Checked64(MulSmall(saturating_sub(shares, 2), 9999)) }


MICROSECS_PER_SEC == 1000 * 1000
DefaultPeriod == 100 * 1000

\* ---- the requests of the model ----
\* Shares: the small values, the first value of weight 2, 1024, the values
\* around the largest share of cgroup v1 (262144) and around the first
\* weight above 10000, the ends of the 32-bit range, and u64 values whose
\* product with 9999 is out of range.
SharesValues ==
    { FromNat(n) : n \in (0..4) \cup {28, 29, 1023, 1024, 262143, 262144, 262145,
                                       262170, 262171} }
    \cup { SubSmall(Pow2(31), 1), Pow2(31), SubSmall(Pow2(32), 1), Pow2(32),
           DivSmall(U64_MAX, 9999), AddSmall(DivSmall(U64_MAX, 9999), 3), U64_MAX }

\* An i64: its sign and its magnitude.
Int64(neg, mag) == [neg |-> neg, mag |-> mag]
Positive(q) == ~q.neg /\ q.mag # <<>>
\* Quotas: -1, 0, small values, the largest quota whose product with 10^6
\* is in range, the next one, and i64::MAX.
QuotaValues ==
    { Int64(TRUE, FromNat(1)) }
    \cup { Int64(FALSE, FromNat(n)) : n \in {0, 1, 50000, 200000} }
    \cup { Int64(FALSE, DivSmall(U64_MAX, MICROSECS_PER_SEC)),
           Int64(FALSE, AddSmall(DivSmall(U64_MAX, MICROSECS_PER_SEC), 1)),
           Int64(FALSE, SubSmall(Pow2(63), 1)) }
PeriodValues == { FromNat(n) : n \in {0, 1, 50000, 100000, 1000000} }

OptionOf(S) == {None} \cup {Some(x) : x \in S}
LinuxCpu ==
    [shares : OptionOf(SharesValues), quota : OptionOf(QuotaValues),
     period : OptionOf(PeriodValues), realtime : BOOLEAN]

NoProperties == [CPUWeight |-> None, CPUQuotaPerSecUSec |-> None,
                 CPUQuotaPeriodUSec |-> None]

InitCpu ==
    \E c \in LinuxCpu, other \in SharesValues :
        cpu = [pc |-> "v2", cpu |-> c, other |-> other,
               weight |-> Panic, weight_other |-> Panic,
               properties |-> NoProperties, result |-> "-"]
IdleCpu ==
    cpu = [pc |-> "idle",
           cpu |-> [shares |-> None, quota |-> None, period |-> None,
                    realtime |-> FALSE],
           other |-> <<>>, weight |-> Panic, weight_other |-> Panic,
           properties |-> NoProperties, result |-> "-"]

restCpu == <<hvars, rvars, cvars, bvars, fvars, dev, memcg, cset, xvars>>

\* v2 Cpu::convert_shares_to_cgroup2, on the shares of the request (0 when
\* there are none) and on the other shares.
Cpu_V2Convert ==
    /\ cpu.pc = "v2"
    /\ \E w \in Cpu_convert_shares_to_cgroup2(unwrap_or(cpu.cpu.shares, <<>>)),
          o \in Cpu_convert_shares_to_cgroup2(cpu.other) :
          cpu' = [cpu EXCEPT !.pc = "systemd", !.weight = w, !.weight_other = o]
    /\ UNCHANGED restCpu

\* systemd Cpu::apply, the quota: u64::MAX, or for a quota above 0
\* specified_quota as u64 * MICROSECS_PER_SEC / period; the division by a
\* period of 0 panics in every build.
systemd_quota(c) ==
    IF c.quota = None \/ ~Positive(unwrap(c.quota)) THEN {Value(U64_MAX)}
    ELSE LET period == unwrap_or(c.period, FromNat(DefaultPeriod))
         IN  { IF p.panic \/ period = <<>> THEN Panic
               ELSE Value(DivSmall(p.val, ToNat(period))) :
                 p \in Checked64(MulSmall(unwrap(c.quota).mag, MICROSECS_PER_SEC)) }

\* systemd Cpu::apply, the period: 100_000, or the period given when it is
\* above 0.
systemd_period(c) ==
    IF c.period # None /\ unwrap(c.period) # <<>> THEN unwrap(c.period)
    ELSE FromNat(DefaultPeriod)

\* systemd Cpu::apply(cpu, properties).
SD_Apply ==
    /\ cpu.pc = "systemd"
    /\ IF cpu.cpu.realtime
       THEN cpu' = [cpu EXCEPT !.pc = "done", !.result = "RealtimeSystemd"]
       ELSE \E w \in convert_shares_to_cgroup2(unwrap_or(cpu.cpu.shares, <<>>)),
               q \in systemd_quota(cpu.cpu) :
               IF w.panic
               THEN cpu' = [cpu EXCEPT !.pc = "done", !.result = "panic"]
               ELSE LET weight == IF cpu.cpu.shares # None /\ w.val # <<>>
                                  THEN Some(w.val) ELSE None
                    IN  IF q.panic
                        THEN cpu' = [cpu EXCEPT
                                       !.pc = "done", !.result = "panic",
                                       !.properties.CPUWeight = weight]
                        ELSE cpu' = [cpu EXCEPT
                                       !.pc = "done", !.result = "Ok",
                                       !.properties =
                                          [CPUWeight |-> weight,
                                           CPUQuotaPerSecUSec |-> Some(q.val),
                                           CPUQuotaPeriodUSec |->
                                              Some(systemd_period(cpu.cpu))]]
    /\ UNCHANGED restCpu

NextCpu == Cpu_V2Convert \/ SD_Apply

\* No controller is at work.
\* ---------------------------------------------------------------------
\* systemd cpuset controller (libcgroups/src/systemd/cpuset.rs) and the
\* unified keys of the systemd backend (libcgroups/src/systemd/unified.rs)
\* ---------------------------------------------------------------------
\* A &str is a sequence of one-character strings.
Digits == <<"0", "1", "2", "3", "4", "5", "6", "7", "8", "9">>
IsDigit(c) == \E i \in 1..Len(Digits) : Digits[i] = c
DigitValue(c) == (CHOOSE i \in 1..Len(Digits) : Digits[i] = c) - 1

\* str::split: the parts between the separators.
RECURSIVE split(_, _)
split(s, sep) ==
    IF \A i \in 1..Len(s) : s[i] # sep THEN <<s>>
    ELSE LET i == CHOOSE k \in 1..Len(s) :
                      s[k] = sep /\ \A j \in 1..(k - 1) : s[j] # sep
         IN  <<SubSeq(s, 1, i - 1)>> \o split(SubSeq(s, i + 1, Len(s)), sep)
\* str::split_terminator: split, without a last empty part.
split_terminator(s, sep) ==
    LET parts == split(s, sep)
    IN  IF Len(parts[Len(parts)]) = 0 THEN SubSeq(parts, 1, Len(parts) - 1)
        ELSE parts
\* str::split_whitespace: the parts that are not empty.
split_whitespace(s) == SelectSeq(split(s, " "), LAMBDA p : Len(p) > 0)
\* str::trim
RECURSIVE trim_start(_)
trim_start(s) ==
    IF Len(s) > 0 /\ s[1] = " " THEN trim_start(Tail(s)) ELSE s
RECURSIVE trim_end(_)
trim_end(s) ==
    IF Len(s) > 0 /\ s[Len(s)] = " " THEN trim_end(SubSeq(s, 1, Len(s) - 1))
    ELSE s
str_trim(s) == trim_end(trim_start(s))

\* str::parse of an unsigned integer: an optional +, then digits only.
ParseOk(n) == [ok |-> TRUE, val |-> n]
ParseErr == [ok |-> FALSE, val |-> 0]
RECURSIVE parse_digits(_, _)
parse_digits(s, acc) ==
    IF Len(s) = 0 THEN acc
    ELSE parse_digits(Tail(s), acc * 10 + DigitValue(Head(s)))
parse(s) ==
    LET d == IF Len(s) > 0 /\ s[1] = "+" THEN Tail(s) ELSE s
    IN  IF Len(d) = 0 \/ \E i \in 1..Len(d) : ~IsDigit(d[i]) THEN ParseErr
        ELSE ParseOk(parse_digits(d, 0))
\* str::parse of an i64: an optional sign, then digits only.
parse_i64(s) ==
    IF Len(s) > 0 /\ s[1] = "-"
    THEN LET p == parse(Tail(s))
         IN  IF p.ok /\ Tail(s)[1] # "+" THEN ParseOk(0 - p.val) ELSE ParseErr
    ELSE parse(s)

\* FixedBitSet: its length in bits and the bits that are set.
with_capacity(bits) == [length |-> bits, bits |-> {}]
grow(bitset, bits) ==
    IF bits > bitset.length THEN [bitset EXCEPT !.length = bits] ELSE bitset
\* FixedBitSet::set and set_range panic out of the length.
set_in_bounds(bitset, bit) == bit < bitset.length
set(bitset, bit) == [bitset EXCEPT !.bits = @ \cup {bit}]
set_range_in_bounds(bitset, start, end) ==
    start <= end /\ end <= bitset.length
set_range(bitset, start, end) ==
    [bitset EXCEPT !.bits = @ \cup {b \in start..(end - 1) : TRUE}]
\* The byte made of the eight bits from bit `low`.
ByteOf(bits, low) ==
    LET bit(j) == IF (low + j) \in bits THEN 2^j ELSE 0
    IN  bit(0) + bit(1) + bit(2) + bit(3) + bit(4) + bit(5) + bit(6) + bit(7)
\* FixedBitSet::as_slice with to_be_bytes on each block: the blocks from
\* the lowest, each block as its bytes from the highest.
BlockWidths == {32, 64}
to_be_bytes(bits, block, width) ==
    [k \in 1..(width \div 8) |-> ByteOf(bits, block * width + width - 8 * k)]
RECURSIVE as_slice_bytes(_, _, _)
as_slice_bytes(bitset, block, width) ==
    IF block * width >= bitset.length THEN <<>>
    ELSE to_be_bytes(bitset.bits, block, width)
         \o as_slice_bytes(bitset, block + 1, width)
RECURSIVE skip_while_zero(_)
skip_while_zero(bytes) ==
    IF Len(bytes) > 0 /\ bytes[1] = 0 THEN skip_while_zero(Tail(bytes))
    ELSE bytes

BmOk(bytes) == [ok |-> TRUE, err |-> "", bytes |-> bytes]
BmErr(e) == [ok |-> FALSE, err |-> e, bytes |-> <<>>]
BitsetOk(bitset) == [ok |-> TRUE, err |-> "", bitset |-> bitset]
BitsetErr(e) == [ok |-> FALSE, err |-> e, bitset |-> with_capacity(0)]

\* The chunk by which a single index grows the bitset.
GrowChunk == 8
\* to_bitmask, a single index: grow by a chunk and set the bit.
set_grown(grown, cpu_index) ==
    IF ~set_in_bounds(grown, cpu_index) THEN BitsetErr("panic")
    ELSE BitsetOk(set(grown, cpu_index))
to_bitmask_index(bitset, cpu_index) ==
    IF ~cpu_index.ok THEN BitsetErr("InvalidIndex")
    ELSE set_grown(IF cpu_index.val >= bitset.length
                   THEN grow(bitset, bitset.length + GrowChunk)
                   ELSE bitset,
                   cpu_index.val)
\* to_bitmask, a range: grow to its end and set its bits.
set_range_grown(grown, start_index, end_index) ==
    IF ~set_range_in_bounds(grown, start_index, end_index + 1)
    THEN BitsetErr("panic")
    ELSE BitsetOk(set_range(grown, start_index, end_index + 1))
to_bitmask_range(bitset, start_index, end_index) ==
    IF ~start_index.ok \/ ~end_index.ok THEN BitsetErr("InvalidIndex")
    ELSE IF start_index.val > end_index.val THEN BitsetErr("InvalidRange")
    ELSE set_range_grown(IF end_index.val >= bitset.length
                         THEN grow(bitset, end_index.val + 1)
                         ELSE bitset,
                         start_index.val, end_index.val)
\* One turn of the loop of to_bitmask, on the trimmed parts of the token.
to_bitmask_cpus(bitset, cpus) ==
    IF Len(cpus) = 1 THEN to_bitmask_index(bitset, parse(cpus[1]))
    ELSE to_bitmask_range(bitset, parse(cpus[1]), parse(cpus[2]))
trimmed(parts) == [i \in 1..Len(parts) |-> str_trim(parts[i])]
to_bitmask_trimmed(bitset, cpu_set) ==
    IF Len(cpu_set) = 0 THEN BitsetOk(bitset)
    ELSE to_bitmask_cpus(bitset, trimmed(split(cpu_set, "-")))
to_bitmask_cpu_set(bitset, part) == to_bitmask_trimmed(bitset, str_trim(part))
RECURSIVE to_bitmask_loop(_, _)
to_bitmask_next(r, parts) ==
    IF r.ok THEN to_bitmask_loop(r.bitset, parts) ELSE r
to_bitmask_loop(bitset, parts) ==
    IF Len(parts) = 0 THEN BitsetOk(bitset)
    ELSE to_bitmask_next(to_bitmask_cpu_set(bitset, Head(parts)), Tail(parts))
\* to_bitmask, for a FixedBitSet with blocks of `width` bits.
to_bitmask_bytes(r, width) ==
    IF r.ok THEN BmOk(skip_while_zero(as_slice_bytes(r.bitset, 0, width)))
    ELSE BmErr(r.err)
to_bitmask(range, width) ==
    to_bitmask_bytes(to_bitmask_loop(with_capacity(8),
                                     split_terminator(range, ",")), width)

\* The lists given to to_bitmask: up to MaxTokens tokens, joined by commas.
\* A token is its text, its kind and the indices it names.
MaxTokens == 2
CpuToken(text, kind, named) == [text |-> text, kind |-> kind, named |-> named]
CpuTokens ==
    { CpuToken(<<>>, "empty", {}),
      CpuToken(<<"0">>, "index", {0}),
      CpuToken(<<"7">>, "index", {7}),
      CpuToken(<<"8">>, "index", {8}),
      CpuToken(<<"1", "5">>, "index", {15}),
      CpuToken(<<"1", "6">>, "index", {16}),
      CpuToken(<<" ", "1", " ">>, "padded", {1}),
      CpuToken(<<"0", "-", "3">>, "range", 0..3),
      CpuToken(<<"9", "-", "1", "0">>, "range", {9, 10}),
      CpuToken(<<"0", "-", "3", "2">>, "range", 0..32),
      CpuToken(<<"0", "-", "6", "4">>, "range", 0..64),
      CpuToken(<<"2", " ", "-", " ", "4">>, "padded", 2..4),
      CpuToken(<<"3", "-", "0">>, "reversed", {}),
      CpuToken(<<"x">>, "bad", {}) }
CpuLists == UNION { [1..n -> CpuTokens] : n \in 0..MaxTokens }
RECURSIVE join(_)
join(tokens) ==
    IF Len(tokens) = 0 THEN <<>>
    ELSE IF Len(tokens) = 1 THEN tokens[1].text
    ELSE tokens[1].text \o <<",">> \o join(Tail(tokens))
Kinds(tokens) == { tokens[i].kind : i \in 1..Len(tokens) }
Named(tokens) == UNION { tokens[i].named : i \in 1..Len(tokens) }

ALLOWED_CPUS == "AllowedCPUs"
ALLOWED_NODES == "AllowedMemoryNodes"
CPU_WEIGHT == "CPUWeight"
CPU_QUOTA == "CPUQuotaPerSecUSec"
CPU_PERIOD == "CPUQuotaPeriodUSec"
MEMORY_MIN == "MemoryMin"
MEMORY_LOW == "MemoryLow"
MEMORY_HIGH == "MemoryHigh"
MEMORY_MAX == "MemoryMax"
TASKS_MAX == "TasksMax"
PropertyNames ==
    { ALLOWED_CPUS, ALLOWED_NODES, CPU_WEIGHT, CPU_QUOTA, CPU_PERIOD,
      MEMORY_MIN, MEMORY_LOW, MEMORY_HIGH, MEMORY_MAX, TASKS_MAX }
\* properties: HashMap<&str, Variant>, empty.
EmptyProperties == [n \in PropertyNames |-> None]
insert(properties, name, value) == [properties EXCEPT ![name] = Some(value)]
Applied(result, properties) == [result |-> result, properties |-> properties]

\* CpuSet::apply: a mask, inserted as `name` unless to_bitmask failed with
\* `error` or panicked.
insert_mask(properties, name, mask, error) ==
    IF mask.ok THEN Applied("Ok", insert(properties, name, mask.bytes))
    ELSE IF mask.err = "panic" THEN Applied("panic", properties)
    ELSE Applied(error, properties)
CpuSet_apply_mems(mems, after_cpus, width) ==
    IF after_cpus.result # "Ok" \/ mems = None THEN after_cpus
    ELSE insert_mask(after_cpus.properties, ALLOWED_NODES,
                     to_bitmask(unwrap(mems), width), "MemoryNodesBitmask")
CpuSet_apply_cpus(cpus, properties, width) ==
    IF cpus = None THEN Applied("Ok", properties)
    ELSE insert_mask(properties, ALLOWED_CPUS, to_bitmask(unwrap(cpus), width),
                     "CpusBitmask")
\* CpuSet::apply (the inner function).
CpuSet_apply(cpu_res, systemd_version, properties, width) ==
    IF systemd_version <= 243 THEN Applied("OldSystemd", properties)
    ELSE CpuSet_apply_mems(cpu_res.mems,
                           CpuSet_apply_cpus(cpu_res.cpus, properties, width),
                           width)
\* <CpuSet as Controller>::apply
CpuSet_Controller_apply(resources_cpu, systemd_version, properties, width) ==
    IF resources_cpu # None
    THEN CpuSet_apply(unwrap(resources_cpu), systemd_version, properties,
                      width)
    ELSE Applied("Ok", properties)

\* `pids as u64` of an i64.
i64_as_u64(n) ==
    IF n >= 0 THEN FromNat(n) ELSE SubSmall(Pow2(64), 0 - n)
\* Unified::apply, the key cpu.weight, in a build with or without overflow
\* checks.
Unified_cpu_weight(shares, weights, properties, checks) ==
    IF ~shares.ok THEN Applied("CpuWeight", properties)
    ELSE IF checks /\ Panic \in weights THEN Applied("panic", properties)
    ELSE Applied("Ok", insert(properties, CPU_WEIGHT,
                              (CHOOSE w \in weights : ~w.panic).val))
\* Unified::apply, the key cpu.max.
Unified_cpu_period(period, with_quota) ==
    IF ~period.ok THEN Applied("CpuPeriod", with_quota)
    ELSE Applied("Ok", insert(with_quota, CPU_PERIOD, FromNat(period.val)))
Unified_cpu_quota(parts, quota, properties) ==
    IF ~quota.ok THEN Applied("CpuQuota", properties)
    ELSE IF Len(parts) # 2
    THEN Applied("Ok", insert(properties, CPU_QUOTA, FromNat(quota.val)))
    ELSE Unified_cpu_period(parse(parts[2]),
                            insert(properties, CPU_QUOTA, FromNat(quota.val)))
Unified_cpu_max(parts, properties) ==
    IF Len(parts) = 0 \/ Len(parts) > 2 THEN Applied("CpuMax", properties)
    ELSE Unified_cpu_quota(parts, parse(parts[1]), properties)
\* Unified::apply, the keys cpuset.cpus and cpuset.mems.
Unified_cpuset(key, value, systemd_version, properties, width) ==
    IF systemd_version <= 243 THEN Applied("OldSystemd", properties)
    ELSE insert_mask(properties,
                     IF key = "cpuset.cpus" THEN ALLOWED_CPUS
                     ELSE ALLOWED_NODES,
                     to_bitmask(value, width), "CpuSetCpu")
\* Unified::apply, the keys memory.min, memory.low, memory.high, memory.max.
Unified_memory(key, parsed, properties) ==
    IF ~parsed.ok THEN Applied("Memory", properties)
    ELSE Applied("Ok", insert(properties,
                              CASE key = "memory.min" -> MEMORY_MIN
                                [] key = "memory.low" -> MEMORY_LOW
                                [] key = "memory.high" -> MEMORY_HIGH
                                [] key = "memory.max" -> MEMORY_MAX,
                              FromNat(parsed.val)))
\* Unified::apply, the key pids.max.
Unified_pids_max(pids, properties) ==
    IF ~pids.ok THEN Applied("PidsMax", properties)
    ELSE Applied("Ok", insert(properties, TASKS_MAX, i64_as_u64(pids.val)))
\* One turn of the loop of Unified::apply.
Unified_apply_key(key, value, systemd_version, properties, width, checks) ==
    IF key = "cpu.weight"
    THEN Unified_cpu_weight(parse(value),
                            IF parse(value).ok
                            THEN convert_shares_to_cgroup2(
                                     FromNat(parse(value).val))
                            ELSE {},
                            properties, checks)
    ELSE IF key = "cpu.max"
    THEN Unified_cpu_max(split_whitespace(value), properties)
    ELSE IF key \in {"cpuset.cpus", "cpuset.mems"}
    THEN Unified_cpuset(key, value, systemd_version, properties, width)
    ELSE IF key \in {"memory.min", "memory.low", "memory.high", "memory.max"}
    THEN Unified_memory(key, parse(value), properties)
    ELSE IF key = "pids.max"
    THEN Unified_pids_max(parse_i64(str_trim(value)), properties)
    ELSE Applied("Ok", properties)
\* Unified::apply (the inner function), on the entries in the order in
\* which the HashMap yields them.
RECURSIVE Unified_apply(_, _, _, _, _)
Unified_next(r, entries, systemd_version, width, checks) ==
    IF r.result = "Ok"
    THEN Unified_apply(entries, systemd_version, r.properties, width, checks)
    ELSE r
Unified_apply(entries, systemd_version, properties, width, checks) ==
    IF Len(entries) = 0 THEN Applied("Ok", properties)
    ELSE Unified_next(Unified_apply_key(Head(entries).key,
                                        Head(entries).value, systemd_version,
                                        properties, width, checks),
                      Tail(entries), systemd_version, width, checks)
\* <Unified as Controller>::apply
Unified_Controller_apply(unified, systemd_version, properties, width, checks) ==
    IF unified # None
    THEN Unified_apply(unwrap(unified), systemd_version, properties, width,
                       checks)
    ELSE Applied("Ok", properties)

\* The requests: systemd versions around 243, cpuset strings, unified maps
\* of up to MaxUnified entries.
SystemdVersions == {242, 243, 244, 245}
CpuSetStrings ==
    { <<"0", "-", "3", ",", "7">>,
      <<"1", "6">>,
      <<"0">>,
      <<"3", "-", "0">> }
CpuResources == [cpus : OptionOf(CpuSetStrings), mems : OptionOf(CpuSetStrings)]
MaxUnified == 2
Entry(key, value) == [key |-> key, value |-> value]
UnifiedEntries ==
    { Entry("cpuset.cpus", <<"0", "-", "3", ",", "7">>),
      Entry("cpuset.cpus", <<"1", "6">>),
      Entry("cpuset.mems", <<"0">>),
      Entry("cpuset.mems", <<"1", "-", "0">>),
      Entry("cpu.weight", <<"1", "0", "2", "4">>),
      Entry("cpu.weight", <<"x">>),
      Entry("cpu.max", <<"5", "0", "0", "0", "0", " ", "1", "0", "0", "0", "0", "0">>),
      Entry("cpu.max", <<"5", "0", "0", "0", "0">>),
      Entry("cpu.max", <<>>),
      Entry("memory.max", <<"1", "0", "2", "4">>),
      Entry("memory.low", <<"5", "1", "2">>),
      Entry("pids.max", <<" ", "1", "0", " ">>),
      Entry("pids.max", <<"-", "1">>),
      Entry("unknown", <<"1">>) }
UnifiedMaps ==
    { mp \in SUBSET UnifiedEntries :
        /\ Cardinality(mp) <= MaxUnified
        /\ \A a, b \in mp : a.key = b.key => a = b }
\* The orders in which a HashMap can yield its entries.
Orders(mp) ==
    { o \in [1..Cardinality(mp) -> mp] :
        \A i, j \in 1..Cardinality(mp) : o[i] = o[j] => i = j }

CsetRecord(op, tokens, systemd_version, resources_cpu, resources_unified) ==
    [op |-> op, range |-> join(tokens), kinds |-> Kinds(tokens),
     named |-> Named(tokens), systemd_version |-> systemd_version,
     cpu |-> resources_cpu, unified |-> resources_unified,
     done |-> FALSE, bitmask |-> BmErr("-"), width |-> 0,
     result |-> "-", properties |-> EmptyProperties]
InitCset ==
    \/ \E tokens \in CpuLists :
           cset = CsetRecord("to_bitmask", tokens, 0, None, None)
    \/ \E v \in SystemdVersions, c \in OptionOf(CpuResources) :
           cset = CsetRecord("cpuset", <<>>, v, c, None)
    \/ \E v \in SystemdVersions, u \in OptionOf(UnifiedMaps) :
           cset = CsetRecord("unified", <<>>, v, None, u)
IdleCset == cset = CsetRecord("idle", <<>>, 0, None, None)

restCset == <<hvars, rvars, cvars, bvars, fvars, dev, memcg, cpu, xvars>>

\* A call of to_bitmask.
CS_ToBitmask ==
    /\ cset.op = "to_bitmask" /\ ~cset.done
    /\ \E width \in BlockWidths :
           cset' = [cset EXCEPT !.done = TRUE, !.width = width,
                                !.bitmask = to_bitmask(cset.range, width)]
    /\ UNCHANGED restCset
\* The cpuset controller of the systemd backend.
CS_Apply ==
    /\ cset.op = "cpuset" /\ ~cset.done
    /\ \E width \in BlockWidths :
           LET r == CpuSet_Controller_apply(cset.cpu, cset.systemd_version,
                                            cset.properties, width)
           IN  cset' = [cset EXCEPT !.done = TRUE, !.width = width,
                                    !.result = r.result,
                                    !.properties = r.properties]
    /\ UNCHANGED restCset
\* The unified controller of the systemd backend.
U_Apply ==
    /\ cset.op = "unified" /\ ~cset.done
    /\ \E width \in BlockWidths, overflow_checks \in BOOLEAN :
       \E entries \in (IF cset.unified = None THEN {None}
                       ELSE {Some(o) : o \in Orders(unwrap(cset.unified))}) :
           LET r == Unified_Controller_apply(entries, cset.systemd_version,
                                             cset.properties, width,
                                             overflow_checks)
           IN  cset' = [cset EXCEPT !.done = TRUE, !.width = width,
                                    !.result = r.result,
                                    !.properties = r.properties]
    /\ UNCHANGED restCset
NextCset == CS_ToBitmask \/ CS_Apply \/ U_Apply

\* ---------------------------------------------------------------------
\* The unified dispatchers: v2 (libcgroups/src/v2/unified.rs) and systemd
\* (libcgroups/src/systemd/unified.rs)
\* ---------------------------------------------------------------------
\* The part of a key before its first '.': cgroup_file.split_once('.').
Subsystem(key) ==
    CASE key \in {"cpu.weight", "cpu.max"} -> "cpu"
      [] key \in {"cpuset.cpus", "cpuset.mems"} -> "cpuset"
      [] key \in {"memory.min", "memory.low", "memory.high", "memory.max"} -> "memory"
      [] key = "pids.max" -> "pids"
      [] OTHER -> key
UnifiedKeys == { e.key : e \in UnifiedEntries }
RecognisedKeys == UnifiedKeys \ {"unknown"}
\* The files of the cgroup directory: each key's file with its text, or no
\* such file.
Absent == <<"absent">>
CgroupDir(unknown_present) ==
    [k \in UnifiedKeys |->
        IF k \in RecognisedKeys \/ unknown_present THEN <<"-">> ELSE Absent]
V2St(files, fail_at) ==
    [files |-> files, writes |-> <<>>, result |-> "-", tried |-> 0,
     fail_at |-> fail_at]

\* v2 Unified::apply_impl, the write of one entry: a file that is not
\* there cannot be opened.
v2_unified_write(st, cgroup_file, value) ==
    IF st.files[cgroup_file] = Absent
    THEN [st EXCEPT !.tried = @ + 1, !.result = "WrappedIo"]
    ELSE write_cgroup_file_str(st, cgroup_file, value)
\* v2 Unified::apply_impl, the error of a failed write.
v2_unified_error(st, cgroup_file, controllers) ==
    IF st.result = "-" \/ Subsystem(cgroup_file) \in controllers THEN st
    ELSE [st EXCEPT !.result = "SubsystemNotAvailable"]
\* v2 Unified::apply_impl, on the entries in the order of the HashMap.
RECURSIVE v2_Unified_apply_impl(_, _, _)
v2_unified_next(st, entries, controllers) ==
    IF st.result = "-" THEN v2_Unified_apply_impl(entries, st, controllers)
    ELSE st
v2_Unified_apply_impl(entries, st, controllers) ==
    IF Len(entries) = 0 THEN st
    ELSE v2_unified_next(
             v2_unified_error(
                 v2_unified_write(st, Head(entries).key, Head(entries).value),
                 Head(entries).key, controllers),
             Tail(entries), controllers)
\* v2 Unified::apply
v2_Unified_apply(unified, st, controllers) ==
    IF unified # None THEN v2_Unified_apply_impl(unwrap(unified), st, controllers)
    ELSE st

\* The requests: a unified map (or none) in an order of its HashMap; for v2
\* the cgroup directory, the enabled controllers and the write that fails.
ControllerSets == { {}, {"cpu", "cpuset", "memory", "pids"} }
UnifiedOrders == {None} \cup UNION { {Some(o) : o \in Orders(mp)} : mp \in UnifiedMaps }
InitUni ==
    \/ \E u \in UnifiedOrders, present \in BOOLEAN, fail_at \in 0..MaxUnified,
          controllers \in ControllerSets :
           uni = [pc |-> "call", backend |-> "v2", unified |-> u, systemd_version |-> 0,
                  controllers |-> controllers,
                  before |-> V2St(CgroupDir(present), fail_at),
                  st |-> V2St(CgroupDir(present), fail_at),
                  width |-> 0, checks |-> FALSE,
                  result |-> "-", properties |-> EmptyProperties]
    \/ \E u \in UnifiedOrders, v \in SystemdVersions, width \in BlockWidths,
          checks \in BOOLEAN :
           uni = [pc |-> "call", backend |-> "systemd", unified |-> u, systemd_version |-> v,
                  controllers |-> {},
                  before |-> V2St(CgroupDir(FALSE), 0),
                  st |-> V2St(CgroupDir(FALSE), 0),
                  width |-> width, checks |-> checks,
                  result |-> "-", properties |-> EmptyProperties]

restUni == <<hvars, rvars, cvars, bvars, fvars, gvars, ctl, rdt, fg, vid, ns, mnt, umask>>

\* The v2 dispatcher.
UD_V2Apply ==
    /\ uni.pc = "call" /\ uni.backend = "v2"
    /\ uni' = [uni EXCEPT !.pc = "done",
                          !.st = v2_Unified_apply(uni.unified, uni.st,
                                                  uni.controllers)]
    /\ UNCHANGED restUni
\* The systemd dispatcher.
UD_SystemdApply ==
    /\ uni.pc = "call" /\ uni.backend = "systemd"
    /\ LET r == Unified_Controller_apply(uni.unified, uni.systemd_version,
                                         uni.properties, uni.width, uni.checks)
       IN  uni' = [uni EXCEPT !.pc = "done", !.result = r.result,
                              !.properties = r.properties]
    /\ UNCHANGED restUni
NextUni == UD_V2Apply \/ UD_SystemdApply

\* ---------------------------------------------------------------------
\* Controller applies: v1 memory (libcgroups/src/v1/memory.rs), v2 cpu
\* (libcgroups/src/v2/cpu.rs) and systemd cpu (libcgroups/src/systemd/cpu.rs)
\* ---------------------------------------------------------------------
\* What a cgroup file holds: a number or `max`; cpu.max holds one or two.
Num(n) == [max |-> FALSE, val |-> n]
Max == [max |-> TRUE, val |-> 0]
CGROUP_MEMORY_LIMIT == "memory.limit_in_bytes"
CGROUP_MEMORY_SWAP_LIMIT == "memory.memsw.limit_in_bytes"
CGROUP_MEMORY_RESERVATION == "memory.soft_limit_in_bytes"
CGROUP_MEMORY_OOM_CONTROL == "memory.oom_control"
CGROUP_MEMORY_SWAPPINESS == "memory.swappiness"
CGROUP_KERNEL_MEMORY_LIMIT == "memory.kmem.limit_in_bytes"
CGROUP_KERNEL_TCP_MEMORY_LIMIT == "memory.kmem.tcp.limit_in_bytes"
CGROUP_CPU_WEIGHT == "cpu.weight"
CGROUP_CPU_MAX == "cpu.max"
CGROUP_CPU_BURST == "cpu.max.burst"
CGROUP_CPU_IDLE == "cpu.idle"

\* The cgroup directory and the properties during an apply: the files, the
\* writes so far, the reads and writes tried, and the one that fails.
CtlSt(files, fail_at, ebusy) ==
    [files |-> files, writes |-> <<>>, result |-> "-", tried |-> 0,
     fail_at |-> fail_at, ebusy |-> ebusy, properties |-> EmptyProperties]
\* common::write_cgroup_file and write_cgroup_file_str, followed by `?`.
ctl_write(st, path, content) ==
    IF st.result # "-" THEN st
    ELSE IF st.tried + 1 = st.fail_at
    THEN [st EXCEPT !.tried = @ + 1, !.result = "WrappedIo"]
    ELSE [st EXCEPT !.tried = @ + 1, !.files[path] = content,
                    !.writes = Append(@, <<path, content>>)]
\* The read of a cgroup file, followed by `?`.
ctl_read(st) ==
    IF st.result # "-" THEN st
    ELSE IF st.tried + 1 = st.fail_at
    THEN [st EXCEPT !.tried = @ + 1, !.result = "WrappedIo"]
    ELSE [st EXCEPT !.tried = @ + 1]
ctl_return(st, result) ==
    IF st.result # "-" THEN st ELSE [st EXCEPT !.result = result]
ctl_insert(st, name, value) ==
    IF st.result # "-" THEN st
    ELSE [st EXCEPT !.properties = insert(@, name, value)]

\* v1 Memory::set_memory: a failed write with EBUSY gives UnableToSet.
v1_set_memory_error(st, written) ==
    IF st.result = "-" /\ written.result # "-" /\ st.ebusy
    THEN [written EXCEPT !.result = "UnableToSet"]
    ELSE written
v1_set_memory(st, val) ==
    IF val = 0 THEN st
    ELSE v1_set_memory_error(st, ctl_write(st, CGROUP_MEMORY_LIMIT, Num(val)))
\* v1 Memory::set_swap
v1_set_swap(st, swap) ==
    IF swap = 0 THEN st
    ELSE ctl_write(st, CGROUP_MEMORY_SWAP_LIMIT, Num(swap))
\* v1 Memory::set_memory_and_swap
v1_set_memory_and_swap(st, limit, swap, is_updated) ==
    v1_set_swap(
        v1_set_memory(
            IF is_updated THEN v1_set_memory(v1_set_swap(st, swap), limit)
            ELSE st,
            limit),
        swap)
\* v1 Memory::get_memory_limit: `max` reads as i64::MAX.
current_limit_below(current_limit, n) ==
    ~current_limit.max /\ current_limit.val < n
\* v1 Memory::apply (the inner function), after the read of the limit.
v1_apply_limit(st, limit, swap, current_limit) ==
    IF swap # None
    THEN v1_set_memory_and_swap(st, limit, unwrap(swap),
             unwrap(swap) = -1 \/ current_limit_below(current_limit, unwrap(swap)))
    ELSE IF limit = -1 THEN v1_set_memory_and_swap(st, limit, -1, TRUE)
    ELSE v1_set_memory_and_swap(st, limit, 0,
                                current_limit_below(current_limit, 0))
\* v1 Memory::apply (the inner function).
v1_Memory_apply_resource(st, resource) ==
    IF resource.limit # None
    THEN v1_apply_limit(ctl_read(st), unwrap(resource.limit), resource.swap,
                        st.files[CGROUP_MEMORY_LIMIT])
    ELSE IF resource.swap # None
    THEN v1_set_memory_and_swap(st, 0, unwrap(resource.swap), FALSE)
    ELSE v1_set_memory_and_swap(st, 0, 0, FALSE)
\* <v1 Memory as Controller>::apply, its parts after the inner apply.
v1_reservation(st, reservation) ==
    IF reservation # 0
    THEN ctl_write(st, CGROUP_MEMORY_RESERVATION, Num(reservation))
    ELSE st
v1_oom_control(st, disable_oom_killer) ==
    IF disable_oom_killer THEN ctl_write(st, CGROUP_MEMORY_OOM_CONTROL, Num(0))
    ELSE ctl_write(st, CGROUP_MEMORY_OOM_CONTROL, Num(1))
v1_swappiness(st, swappiness) ==
    IF swappiness = None THEN st
    ELSE IF unwrap(swappiness) <= 100
    THEN ctl_write(st, CGROUP_MEMORY_SWAPPINESS, Num(unwrap(swappiness)))
    ELSE ctl_return(st, "SwappinessOutOfRange")
v1_kernel(st, path, limit) ==
    IF limit = None THEN st ELSE ctl_write(st, path, Num(unwrap(limit)))
\* <v1 Memory as Controller>::apply
v1_Memory_apply(st, memory, disable_oom_killer) ==
    IF memory = None THEN ctl_return(st, "Ok")
    ELSE ctl_return(
        v1_kernel(
          v1_kernel(
            v1_swappiness(
              v1_oom_control(
                v1_reservation(
                  v1_Memory_apply_resource(st, unwrap(memory)),
                  unwrap_or(unwrap(memory).reservation, 0)),
                disable_oom_killer),
              unwrap(memory).swappiness),
            CGROUP_KERNEL_MEMORY_LIMIT, unwrap(memory).kernel),
          CGROUP_KERNEL_TCP_MEMORY_LIMIT, unwrap(memory).kernel_tcp),
        "Ok")

\* An i64 as a number of the model.
i64_value(q) == IF q.neg THEN 0 - ToNat(q.mag) ELSE ToNat(q.mag)
\* v2 Cpu::apply, the shares: `weight` is what the conversion returned.
v2_cpu_weight(st, shares, weight) ==
    IF shares = None THEN st
    ELSE IF weight.panic THEN ctl_return(st, "panic")
    ELSE IF weight.val # <<>>
    THEN ctl_write(st, CGROUP_CPU_WEIGHT, Num(ToNat(weight.val)))
    ELSE st
\* v2 Cpu::create_period_only_value
create_period_only_value(st, period) ==
    IF Len(st.files[CGROUP_CPU_MAX]) > 0
    THEN ctl_write(ctl_read(st), CGROUP_CPU_MAX,
                   <<st.files[CGROUP_CPU_MAX][1], Num(period)>>)
    ELSE ctl_read(st)
\* v2 Cpu::apply, the match on quota and period and the write of cpu.max.
v2_cpu_max(st, quota, period) ==
    IF quota = None /\ period = None THEN st
    ELSE IF quota = None THEN create_period_only_value(st, ToNat(unwrap(period)))
    ELSE IF period = None
    THEN ctl_write(st, CGROUP_CPU_MAX,
                   <<IF Positive(unwrap(quota)) THEN Num(i64_value(unwrap(quota)))
                     ELSE Max>>)
    ELSE ctl_write(st, CGROUP_CPU_MAX,
                   <<IF Positive(unwrap(quota)) THEN Num(i64_value(unwrap(quota)))
                     ELSE Max,
                     Num(ToNat(unwrap(period)))>>)
v2_cpu_option(st, path, value) ==
    IF value = None THEN st ELSE ctl_write(st, path, Num(unwrap(value)))
\* v2 Cpu::apply
v2_Cpu_apply(st, c, weight) ==
    IF c.realtime THEN ctl_return(st, "RealtimeV2")
    ELSE ctl_return(
        v2_cpu_option(
          v2_cpu_option(
            v2_cpu_max(v2_cpu_weight(st, c.shares, weight), c.quota, c.period),
            CGROUP_CPU_BURST, c.burst),
          CGROUP_CPU_IDLE, c.idle),
        "Ok")

\* systemd Cpu::apply: `weight` and `quota` are what the conversion and the
\* quota arithmetic returned.
systemd_cpu_weight(st, shares, weight) ==
    IF shares = None THEN st
    ELSE IF weight.panic THEN ctl_return(st, "panic")
    ELSE IF weight.val # <<>> THEN ctl_insert(st, CPU_WEIGHT, weight.val)
    ELSE st
systemd_cpu_quota(st, quota) ==
    IF quota.panic THEN ctl_return(st, "panic")
    ELSE ctl_insert(st, CPU_QUOTA, quota.val)
systemd_Cpu_apply(st, c, weight, quota) ==
    IF c.realtime THEN ctl_return(st, "RealtimeSystemd")
    ELSE ctl_return(
        ctl_insert(
          systemd_cpu_quota(systemd_cpu_weight(st, c.shares, weight), quota),
          CPU_PERIOD, systemd_period(c)),
        "Ok")

\* ---- the requests of the model ----
CtlMemoryFiles ==
    { CGROUP_MEMORY_LIMIT, CGROUP_MEMORY_SWAP_LIMIT, CGROUP_MEMORY_RESERVATION,
      CGROUP_MEMORY_OOM_CONTROL, CGROUP_MEMORY_SWAPPINESS,
      CGROUP_KERNEL_MEMORY_LIMIT, CGROUP_KERNEL_TCP_MEMORY_LIMIT }
CtlCpuFiles ==
    { CGROUP_CPU_WEIGHT, CGROUP_CPU_BURST, CGROUP_CPU_IDLE }
\* The files before the apply, with the memory limit of the cgroup.
CtlFiles(current_limit) ==
    [f \in CtlMemoryFiles \cup CtlCpuFiles \cup {CGROUP_CPU_MAX} |->
        IF f = CGROUP_CPU_MAX THEN <<Max, Num(100000)>>
        ELSE IF f = CGROUP_MEMORY_LIMIT THEN current_limit
        ELSE Num(0)]
CtlLimits == {-1, 0, 1024, 2048}
CtlMemory ==
    [limit : OptionOf(CtlLimits), swap : OptionOf(CtlLimits),
     reservation : OptionOf({0, 512}), swappiness : OptionOf({60, 101}),
     kernel : OptionOf({4096}), kernel_tcp : OptionOf({4096})]
CtlCpu ==
    [shares : OptionOf({FromNat(0), FromNat(1024)}),
     quota : OptionOf({Int64(TRUE, FromNat(1)), Int64(FALSE, FromNat(50000))}),
     period : OptionOf({FromNat(0), FromNat(50000)}),
     realtime : BOOLEAN, burst : OptionOf({1000}), idle : OptionOf({1})]
NoCtlMemory ==
    [limit |-> None, swap |-> None, reservation |-> None, swappiness |-> None,
     kernel |-> None, kernel_tcp |-> None]
NoCtlCpu ==
    [shares |-> None, quota |-> None, period |-> None, realtime |-> FALSE,
     burst |-> None, idle |-> None]
MaxCtlIo == 2
CtlRecord(controller, memory, disable_oom_killer, c, st) ==
    [pc |-> "call", controller |-> controller, memory |-> memory,
     disable_oom_killer |-> disable_oom_killer, cpu |-> c,
     before |-> st, once |-> st, twice |-> st]
InitCtl ==
    \/ \E memory \in OptionOf(CtlMemory), disable_oom_killer \in BOOLEAN,
          current_limit \in {Max, Num(1024), Num(4096)},
          fail_at \in 0..MaxCtlIo, ebusy \in BOOLEAN :
           ctl = CtlRecord("v1 memory", memory, disable_oom_killer, NoCtlCpu,
                           CtlSt(CtlFiles(current_limit), fail_at, ebusy))
    \/ \E c \in CtlCpu, controller \in {"v2 cpu", "systemd cpu"},
          fail_at \in 0..MaxCtlIo :
           ctl = CtlRecord(controller, None, FALSE, c,
                           CtlSt(CtlFiles(Max), fail_at, FALSE))

restCtl == <<hvars, rvars, cvars, bvars, fvars, gvars, uni, rdt, fg, vid, ns, mnt, umask>>

\* An apply of the controller on the state st of the cgroup.
CtlApplied(st) ==
    IF ctl.controller = "v1 memory"
    THEN {v1_Memory_apply(st, ctl.memory, ctl.disable_oom_killer)}
    ELSE IF ctl.controller = "v2 cpu"
    THEN { v2_Cpu_apply(st, ctl.cpu, w) :
             w \in Cpu_convert_shares_to_cgroup2(unwrap_or(ctl.cpu.shares, <<>>)) }
    ELSE { systemd_Cpu_apply(st, ctl.cpu, w, q) :
             w \in convert_shares_to_cgroup2(unwrap_or(ctl.cpu.shares, <<>>)),
             q \in systemd_quota(ctl.cpu) }
\* The first apply of the request.
Ctl_Apply ==
    /\ ctl.pc = "call"
    /\ \E st \in CtlApplied(ctl.before) :
           ctl' = [ctl EXCEPT !.pc = "once", !.once = st, !.twice = st]
    /\ UNCHANGED restCtl
\* The same request applied again, after the first apply returned Ok.
Ctl_ApplyAgain ==
    /\ ctl.pc = "once" /\ ctl.once.result = "Ok"
    /\ \E st \in CtlApplied([ctl.once EXCEPT !.result = "-", !.writes = <<>>,
                                             !.tried = 0, !.fail_at = 0]) :
           ctl' = [ctl EXCEPT !.pc = "twice", !.twice = st]
    /\ UNCHANGED restCtl
NextCtl == Ctl_Apply \/ Ctl_ApplyAgain

\* ---------------------------------------------------------------------
\* setup_intel_rdt on the resctrl file system
\* (libcontainer/src/process/intel_rdt.rs)
\* ---------------------------------------------------------------------
\* The names a group directory can have: the clos_id of the configuration
\* and the id of the container.
ClosIdName == "clos"
ContainerIdName == "container"
RdtGroupNames == {ClosIdName, ContainerIdName}
\* setup_intel_rdt, the match that chooses the name of the group.
setup_intel_rdt_id(intel_rdt, maybe_container_id) ==
    IF intel_rdt \in {"clos_id", "clos_id_schema"} THEN Some(ClosIdName)
    ELSE maybe_container_id
\* setup_intel_rdt on the resctrl mount with its group directories.
setup_intel_rdt_groups(maybe_container_id, pid, intel_rdt, groups, failAt, r) ==
    IF failAt = "mount"
    THEN [err |-> r.err, flag |-> FALSE, groups |-> groups]
    ELSE IF setup_intel_rdt_id(intel_rdt, maybe_container_id) = None
    THEN [err |-> "ResctrlIdNotFound", flag |-> FALSE, groups |-> groups]
    ELSE [err |-> r.err, flag |-> r.flag,
          groups |-> [groups EXCEPT
              ![unwrap(setup_intel_rdt_id(intel_rdt, maybe_container_id))] = r.rs]]
\* The group directory the call works on (any, when it chooses none).
RdtGroupOf(intel_rdt, maybe_container_id) ==
    unwrap_or(setup_intel_rdt_id(intel_rdt, maybe_container_id), ClosIdName)
RdtGroups == {g \in [RdtGroupNames -> ResctrlValues] :
                 \A n \in RdtGroupNames : ~g[n].dir => ~g[n].same_schema}
RdtFailures == {"none", "mount", "create_dir", "tasks", "schemata"}
InitRdt ==
    \E intel_rdt \in RdtKinds, maybe_container_id \in OptionOf({ContainerIdName}),
       groups \in RdtGroups, failAt \in RdtFailures :
        rdt = [pc |-> "call", intel_rdt |-> intel_rdt,
               maybe_container_id |-> maybe_container_id, failAt |-> failAt,
               before |-> groups, groups |-> groups, err |-> "-", flag |-> FALSE]

restRdt == <<hvars, rvars, cvars, bvars, fvars, gvars, uni, ctl, fg, vid, ns, mnt, umask>>

\* The call of setup_intel_rdt for the init process.
Rdt_Setup ==
    /\ rdt.pc = "call"
    /\ \E pid \in 1..MaxPid :
        LET r == setup_intel_rdt_groups(rdt.maybe_container_id, pid,
                     rdt.intel_rdt, rdt.groups, rdt.failAt,
                     setup_intel_rdt(rdt.intel_rdt, pid,
                         rdt.groups[RdtGroupOf(rdt.intel_rdt,
                                               rdt.maybe_container_id)],
                         rdt.failAt))
        IN  rdt' = [rdt EXCEPT !.pc = "done", !.groups = r.groups,
                               !.err = r.err, !.flag = r.flag]
    /\ UNCHANGED restRdt
NextRdt == Rdt_Setup

\* ---------------------------------------------------------------------
\* `run` and handle_foreground (youki/src/commands/run.rs)
\* ---------------------------------------------------------------------
SIGCHLD == "SIGCHLD"
SIGURG == "SIGURG"
SIGWINCH == "SIGWINCH"
\* The signals the model sends to the runtime while it waits.
FgSignals == {SIGURG, SIGWINCH, "SIGTERM", "SIGINT"}
\* The arms of the match in handle_foreground that forward nothing.
NotForwarded == {SIGCHLD, SIGURG, SIGWINCH}
MaxOthers == 2
FgNoInit == [state |-> "none", how |-> "-", n |-> 0]
FgOk(n) == [ok |-> TRUE, val |-> n]
FgErr == [ok |-> FALSE, val |-> 0]
FgNone == [ok |-> FALSE, val |-> -1]
InitFg ==
    \E detach \in BOOLEAN :
        fg = [pc |-> "start", detach |-> detach, init |-> FgNoInit,
              others |-> 0, zombies |-> 0, reaped |-> 0, blocked |-> FALSE,
              pending |-> {}, received |-> {}, forwarded |-> {},
              foreground_result |-> FgNone, result |-> FgNone,
              deleted |-> FALSE, returned_at |-> "-"]

restFg == <<hvars, rvars, cvars, bvars, fvars, gvars, uni, ctl, rdt, vid, ns, mnt, umask>>

\* run returns r: the state of init at that moment is kept.
FgReturn(r, deleted) ==
    [fg EXCEPT !.pc = "returned", !.result = r, !.deleted = deleted,
               !.returned_at = fg.init.state]
\* run, lines 15-33: build and start the container; detached mode returns.
Fg_Start ==
    /\ fg.pc = "start"
    /\ \/ fg' = FgReturn(FgErr, FALSE)
       \/ \E k \in 0..MaxOthers :
            fg' = IF fg.detach
                  THEN [fg EXCEPT !.pc = "returned", !.result = FgOk(0),
                                  !.init.state = "alive", !.others = k,
                                  !.returned_at = "alive"]
                  ELSE [fg EXCEPT !.pc = "block", !.init.state = "alive",
                                  !.others = k]
    /\ UNCHANGED restFg
\* handle_foreground, lines 58-61: block every signal.
Fg_Block ==
    /\ fg.pc = "block"
    /\ \/ fg' = [fg EXCEPT !.pc = "wait", !.blocked = TRUE]
       \/ fg' = [fg EXCEPT !.pc = "delete", !.foreground_result = FgErr]
    /\ UNCHANGED restFg
\* handle_foreground, lines 63-114: sigwait and the match on the signal.
Fg_Sigwait ==
    /\ fg.pc = "wait"
    /\ \/ fg' = [fg EXCEPT !.pc = "delete", !.foreground_result = FgErr]
       \/ \E s \in fg.pending :
            fg' = [fg EXCEPT
                     !.pending = @ \ {s},
                     !.received = @ \cup {s},
                     !.pc = IF s = SIGCHLD THEN "reap" ELSE "wait",
                     !.forwarded = IF s \in NotForwarded THEN @ ELSE @ \cup {s}]
    /\ UNCHANGED restFg
\* handle_foreground, lines 72-94: waitpid(None, WNOHANG) in the inner loop.
Fg_Waitpid ==
    /\ fg.pc = "reap"
    /\ \/ fg' = [fg EXCEPT !.pc = "delete", !.foreground_result = FgErr]
       \/ /\ fg.init.state = "zombie"
          /\ fg' = [fg EXCEPT !.pc = "delete", !.init.state = "reaped",
                              !.foreground_result = FgOk(fg.init.n)]
       \/ /\ fg.zombies > 0
          /\ fg' = [fg EXCEPT !.zombies = @ - 1, !.reaped = @ + 1]
       \/ /\ fg.init.state # "zombie" /\ fg.zombies = 0
          /\ fg' = [fg EXCEPT !.pc = "wait"]
    /\ UNCHANGED restFg
\* run, lines 44-46: container.delete(true)? and the result. A forced delete
\* kills an init that is still alive.
Fg_Delete ==
    /\ fg.pc = "delete"
    /\ \/ fg' = FgReturn(FgErr, FALSE)
       \/ fg' = [FgReturn(fg.foreground_result, TRUE) EXCEPT
                   !.init = IF fg.init.state = "alive"
                            THEN [state |-> "killed", how |-> "signaled", n |-> 9]
                            ELSE @,
                   !.returned_at = IF fg.init.state = "alive" THEN "killed"
                                   ELSE fg.init.state]
    /\ UNCHANGED restFg
\* The kernel: SIGCHLD is pending when blocked, and discarded otherwise.
FgChildSignal == IF fg.blocked THEN fg.pending \cup {SIGCHLD} ELSE fg.pending
\* The init process exits with a status, or is killed by a signal.
Env_InitTerminates ==
    /\ fg.pc \in {"block", "wait", "reap", "delete"}
    /\ fg.init.state = "alive"
    /\ \E t \in {<<"exited", 0>>, <<"exited", 1>>, <<"signaled", 9>>,
                 <<"signaled", 15>>} :
        fg' = [fg EXCEPT !.init = [state |-> "zombie", how |-> t[1], n |-> t[2]],
                         !.pending = FgChildSignal]
    /\ UNCHANGED restFg
\* Another child of the runtime terminates.
Env_OtherTerminates ==
    /\ fg.pc \in {"block", "wait", "reap", "delete"}
    /\ fg.others > 0
    /\ fg' = [fg EXCEPT !.others = @ - 1, !.zombies = @ + 1,
                        !.pending = FgChildSignal]
    /\ UNCHANGED restFg
\* A signal is sent to the runtime while it has the signals blocked.
Env_Signal ==
    /\ fg.pc \in {"wait", "reap"} /\ fg.blocked
    /\ \E s \in FgSignals : fg' = [fg EXCEPT !.pending = @ \cup {s}]
    /\ UNCHANGED restFg
NextFg ==
    \/ Fg_Start \/ Fg_Block \/ Fg_Sigwait \/ Fg_Waitpid \/ Fg_Delete
    \/ Env_InitTerminates \/ Env_OtherTerminates \/ Env_Signal

\* ---------------------------------------------------------------------
\* ContainerBuilder::validate_id (libcontainer/src/container/builder.rs)
\* and the `create` command (youki/src/commands/create.rs)
\* ---------------------------------------------------------------------
\* An id is a sequence of characters, each one its code point.
Dot == 46
\* validate_id, the arms of the match on a character:
\* 'a'..='z' | 'A'..='Z' | '0'..='9' | '_' | '+' | '-' | '.'
id_char_ok(c) ==
    \/ (97 <= c /\ c <= 122) \/ (65 <= c /\ c <= 90) \/ (48 <= c /\ c <= 57)
    \/ c = 95 \/ c = 43 \/ c = 45 \/ c = Dot
\* validate_id, the loop over the characters from the i-th on.
RECURSIVE validate_id_chars(_, _)
validate_id_chars(container_id, i) ==
    IF i > Len(container_id) THEN "Ok"
    ELSE IF id_char_ok(container_id[i]) THEN validate_id_chars(container_id, i + 1)
    ELSE "InvalidChars"
\* validate_id without the check of the file names `.` and `..`.
validate_id_any_file_name(container_id) ==
    IF container_id = <<>> THEN "Empty" ELSE validate_id_chars(container_id, 1)
\* ContainerBuilder::validate_id: Ok, or the kind of ErrInvalidID.
validate_id(container_id) ==
    IF container_id = <<>> THEN "Empty"
    ELSE IF container_id = <<Dot>> \/ container_id = <<Dot, Dot>> THEN "FileName"
    ELSE validate_id_chars(container_id, 1)
\* The characters of the model: the ends of each range of the match, their
\* neighbours, the four single characters and some others.
IdChars == {96, 97, 122, 123, 64, 65, 90, 91, 47, 48, 57, 58, 95, 43, 45, Dot, 44, 32}
MaxIdLen == 3
RECURSIVE IdsOfLen(_)
IdsOfLen(n) ==
    IF n = 0 THEN {<<>>}
    ELSE {Append(s, c) : s \in IdsOfLen(n - 1), c \in IdChars}
Ids == UNION {IdsOfLen(n) : n \in 0..MaxIdLen}
InitVid ==
    \E container_id \in Ids :
        vid = [pc |-> "new", container_id |-> container_id, result |-> "-",
               validated |-> "-", dir_created |-> FALSE, state_created |-> FALSE]

restVid == <<hvars, rvars, cvars, bvars, fvars, gvars, uni, ctl, rdt, fg, ns, mnt, umask>>

\* create, lines 17-22: the builder and its paths; nothing is created.
Vid_Builder ==
    /\ vid.pc = "new"
    /\ \/ vid' = [vid EXCEPT !.pc = "paths"]
       \/ vid' = [vid EXCEPT !.pc = "returned", !.result = "InvalidInput"]
    /\ UNCHANGED restVid
\* create, line 23: validate_id()?
Vid_ValidateId ==
    /\ vid.pc = "paths"
    /\ vid' = IF validate_id(vid.container_id) = "Ok"
              THEN [vid EXCEPT !.pc = "valid", !.validated = "Ok"]
              ELSE [vid EXCEPT !.pc = "returned",
                               !.validated = validate_id(vid.container_id),
                               !.result = "InvalidID"]
    /\ UNCHANGED restVid
\* create, lines 24-27: build() creates the container directory and state.
Vid_Build ==
    /\ vid.pc = "valid"
    /\ \/ vid' = [vid EXCEPT !.pc = "returned", !.result = "Ok",
                             !.dir_created = TRUE, !.state_created = TRUE]
       \/ \E dir \in BOOLEAN :
            vid' = [vid EXCEPT !.pc = "returned", !.result = "BuildError",
                               !.dir_created = dir]
    /\ UNCHANGED restVid
NextVid == Vid_Builder \/ Vid_ValidateId \/ Vid_Build





\* ---------------------------------------------------------------------
\* Namespaces (libcontainer/src/namespaces.rs)
\* ---------------------------------------------------------------------
\* ORDERED_NAMESPACES with CLONE_NEWPID before CLONE_NEWUSER.
ORDERED_NAMESPACES_PID_FIRST ==
    <<"CLONE_NEWPID", "CLONE_NEWUSER", "CLONE_NEWUTS", "CLONE_NEWIPC",
      "CLONE_NEWNET", "CLONE_NEWCGROUP", "CLONE_NEWNS">>
ORDERED_NAMESPACES ==
    <<"CLONE_NEWUSER", "CLONE_NEWPID", "CLONE_NEWUTS", "CLONE_NEWIPC",
      "CLONE_NEWNET", "CLONE_NEWCGROUP", "CLONE_NEWNS">>
CloneFlags == {ORDERED_NAMESPACES[i] : i \in 1..Len(ORDERED_NAMESPACES)}
LinuxNamespaceTypes ==
    {"User", "Pid", "Uts", "Ipc", "Network", "Cgroup", "Mount", "Time"}
\* linuxNameSpace2CloneFlag: the flag of a type, none for Time.
linuxNameSpace2CloneFlag(namespace_type) ==
    CASE namespace_type = "User" -> Some("CLONE_NEWUSER")
      [] namespace_type = "Pid" -> Some("CLONE_NEWPID")
      [] namespace_type = "Uts" -> Some("CLONE_NEWUTS")
      [] namespace_type = "Ipc" -> Some("CLONE_NEWIPC")
      [] namespace_type = "Network" -> Some("CLONE_NEWNET")
      [] namespace_type = "Cgroup" -> Some("CLONE_NEWCGROUP")
      [] namespace_type = "Mount" -> Some("CLONE_NEWNS")
      [] OTHER -> None
\* A LinuxNamespace of the spec: its type and whether it has a path.
LinuxNamespaces == [typ : LinuxNamespaceTypes, path : BOOLEAN]
NoNamespaces == [f \in CloneFlags |-> None]
\* Namespaces::try_from, the collect into the HashMap: a later namespace of
\* a type replaces an earlier one.
RECURSIVE ns_collect(_, _, _)
ns_collect(namespaces, i, mp) ==
    IF i > Len(namespaces) THEN mp
    ELSE ns_collect(namespaces, i + 1,
             [mp EXCEPT ![unwrap(linuxNameSpace2CloneFlag(namespaces[i].typ))] =
                  Some(namespaces[i])])
\* Namespaces::try_from: NotSupported when a type has no flag.
Namespaces_try_from(namespaces) ==
    IF \E i \in 1..Len(namespaces) : linuxNameSpace2CloneFlag(namespaces[i].typ) = None
    THEN [err |-> "NotSupported", map |-> NoNamespaces]
    ELSE [err |-> "-", map |-> ns_collect(namespaces, 1, NoNamespaces)]
\* apply_namespaces, lines 87-91: the namespaces to enter, in the order of
\* ORDERED_NAMESPACES.
RECURSIVE to_enter(_, _, _)
to_enter(mp, filter, i) ==
    IF i > Len(ORDERED_NAMESPACES) THEN <<>>
    ELSE IF ORDERED_NAMESPACES[i] \in filter /\ mp[ORDERED_NAMESPACES[i]] # None
    THEN <<unwrap(mp[ORDERED_NAMESPACES[i]])>> \o to_enter(mp, filter, i + 1)
    ELSE to_enter(mp, filter, i + 1)
\* unshare_or_setns: the steps that can fail, by whether there is a path.
NsFailures(namespace) ==
    IF namespace.path THEN {"none", "open", "set_ns", "close"}
    ELSE {"none", "unshare"}
\* unshare_or_setns: the system call made, when it is reached and succeeds.
unshare_or_setns(namespace, failure) ==
    IF namespace.path
    THEN IF failure \in {"open", "set_ns"} THEN <<>>
         ELSE <<[flag |-> unwrap(linuxNameSpace2CloneFlag(namespace.typ)),
                 call |-> "setns"]>>
    ELSE IF failure = "unshare" THEN <<>>
         ELSE <<[flag |-> unwrap(linuxNameSpace2CloneFlag(namespace.typ)),
                 call |-> "unshare"]>>
MaxNamespaces == 2
RECURSIVE NamespaceLists(_)
NamespaceLists(n) ==
    IF n = 0 THEN {<<>>}
    ELSE {Append(s, x) : s \in NamespaceLists(n - 1), x \in LinuxNamespaces}
\* The filters of the callers: every flag, all but the user namespace, the
\* user namespace alone, and none.
NsFilters ==
    {CloneFlags, CloneFlags \ {"CLONE_NEWUSER"}, {"CLONE_NEWUSER"}, {}}
InitNs ==
    \E n \in 0..MaxNamespaces : \E namespaces \in NamespaceLists(n) :
      \E filter \in NsFilters :
        ns = [pc |-> "try_from", namespaces |-> namespaces, filter |-> filter,
              map |-> NoNamespaces, to_enter |-> <<>>, entered |-> <<>>,
              result |-> "-"]

restNs == <<hvars, rvars, cvars, bvars, fvars, gvars, uni, ctl, rdt, fg, vid, mnt, umask>>

\* Namespaces::try_from(spec.linux.namespaces)
Ns_TryFrom ==
    /\ ns.pc = "try_from"
    /\ ns' = IF Namespaces_try_from(ns.namespaces).err # "-"
             THEN [ns EXCEPT !.pc = "returned",
                             !.result = Namespaces_try_from(ns.namespaces).err]
             ELSE [ns EXCEPT !.pc = "apply",
                             !.map = Namespaces_try_from(ns.namespaces).map]
    /\ UNCHANGED restNs
\* apply_namespaces, lines 87-91
Ns_ToEnter ==
    /\ ns.pc = "apply"
    /\ ns' = [ns EXCEPT !.pc = "loop",
                        !.to_enter = to_enter(ns.map, ns.filter, 1)]
    /\ UNCHANGED restNs
\* apply_namespaces, lines 93-95: one iteration, self.unshare_or_setns(ns)?
Ns_Enter ==
    /\ ns.pc = "loop" /\ ns.to_enter # <<>>
    /\ \E failure \in NsFailures(Head(ns.to_enter)) :
        ns' = [ns EXCEPT
                 !.entered = @ \o unshare_or_setns(Head(ns.to_enter), failure),
                 !.to_enter = Tail(@),
                 !.pc = IF failure = "none" THEN "loop" ELSE "returned",
                 !.result = IF failure = "none" THEN @ ELSE failure]
    /\ UNCHANGED restNs
\* apply_namespaces, line 96: Ok(())
Ns_Return ==
    /\ ns.pc = "loop" /\ ns.to_enter = <<>>
    /\ ns' = [ns EXCEPT !.pc = "returned", !.result = "Ok"]
    /\ UNCHANGED restNs
NextNs == Ns_TryFrom \/ Ns_ToEnter \/ Ns_Enter \/ Ns_Return

\* ---------------------------------------------------------------------
\* parse_mount (libcontainer/src/rootfs/utils.rs)
\* ---------------------------------------------------------------------
\* MsFlags and the mount attributes are sets of flag names: `|` is the union
\* and `& !` the difference.
\* MountRecursive::from_str: the recursive options, with is_clear and flag.
MountRecursive_from_str(option) ==
    CASE option = "rro" -> Some([is_clear |-> FALSE, flag |-> {"MOUNT_ATTR_RDONLY"}])
      [] option = "rrw" -> Some([is_clear |-> TRUE, flag |-> {"MOUNT_ATTR_RDONLY"}])
      [] option = "rnoatime" -> Some([is_clear |-> FALSE, flag |-> {"MOUNT_ATTR_NOATIME"}])
      [] OTHER -> None
MOUNT_ATTR__ATIME == {"MOUNT_ATTR_NOATIME", "MOUNT_ATTR_STRICTATIME"}
\* parse_mount, the match on option.as_str(): is_clear and flag of an option
\* of the table, nothing for any other option.
mount_option(option) ==
    CASE option = "defaults" -> Some([is_clear |-> FALSE, flag |-> {}])
      [] option = "ro" -> Some([is_clear |-> FALSE, flag |-> {"MS_RDONLY"}])
      [] option = "rw" -> Some([is_clear |-> TRUE, flag |-> {"MS_RDONLY"}])
      [] option = "suid" -> Some([is_clear |-> TRUE, flag |-> {"MS_NOSUID"}])
      [] option = "nosuid" -> Some([is_clear |-> FALSE, flag |-> {"MS_NOSUID"}])
      [] option = "bind" -> Some([is_clear |-> FALSE, flag |-> {"MS_BIND"}])
      [] option = "rbind" -> Some([is_clear |-> FALSE, flag |-> {"MS_BIND", "MS_REC"}])
      [] option = "private" -> Some([is_clear |-> TRUE, flag |-> {"MS_PRIVATE"}])
      [] option = "rprivate" -> Some([is_clear |-> TRUE, flag |-> {"MS_PRIVATE", "MS_REC"}])
      [] option = "relatime" -> Some([is_clear |-> TRUE, flag |-> {"MS_RELATIME"}])
      [] OTHER -> None
\* parse_mount, the recursive attribute of one option.
mount_attr_apply(mount_attr, is_clear, flag) ==
    IF is_clear THEN [mount_attr EXCEPT !.attr_clr = @ \cup flag]
    ELSE [mount_attr EXCEPT
            !.attr_set = @ \cup flag,
            !.attr_clr = IF flag \subseteq MOUNT_ATTR__ATIME
                         THEN @ \cup MOUNT_ATTR__ATIME ELSE @]
NewMountAttr == [attr_set |-> {}, attr_clr |-> {}]
\* parse_mount with the clearing options of the table clearing nothing.
mount_flag_never_cleared(flags, is_clear, flag) ==
    IF is_clear THEN flags ELSE flags \cup flag
\* parse_mount, lines 177-181: flags &= !flag, or flags |= flag.
mount_flag_apply(flags, is_clear, flag) ==
    IF is_clear THEN flags \ flag ELSE flags \cup flag
\* parse_mount, one option applied to the configuration so far.
parse_mount_option(cfg, option) ==
    IF MountRecursive_from_str(option) # None
    THEN [cfg EXCEPT !.rec_attr =
            Some(mount_attr_apply(unwrap_or(@, NewMountAttr),
                                  unwrap(MountRecursive_from_str(option)).is_clear,
                                  unwrap(MountRecursive_from_str(option)).flag))]
    ELSE IF mount_option(option) # None
    THEN [cfg EXCEPT !.flags = mount_flag_apply(@,
                                  unwrap(mount_option(option)).is_clear,
                                  unwrap(mount_option(option)).flag)]
    ELSE IF option \in {"idmap", "ridmap"}
    THEN [cfg EXCEPT !.err = "UnsupportedMountOption"]
    ELSE [cfg EXCEPT !.data = Append(@, option)]
\* parse_mount, the loop over the options from the i-th on.
RECURSIVE parse_mount_loop(_, _, _)
parse_mount_loop(options, i, cfg) ==
    IF i > Len(options) \/ cfg.err # "-" THEN cfg
    ELSE parse_mount_loop(options, i + 1, parse_mount_option(cfg, options[i]))
\* parse_mount: the MountOptionConfig, or the error.
parse_mount(options) ==
    parse_mount_loop(options, 1,
        [err |-> "-", flags |-> {}, data |-> <<>>, rec_attr |-> None])
MountOptions == {"ro", "rw", "rbind", "rprivate", "rro", "idmap", "size=1k"}
MaxOptions == 2
RECURSIVE OptionLists(_)
OptionLists(n) ==
    IF n = 0 THEN {<<>>}
    ELSE {Append(s, o) : s \in OptionLists(n - 1), o \in MountOptions}
OptionListsUpTo == UNION {OptionLists(n) : n \in 0..MaxOptions}
InitMnt ==
    \E opts1 \in OptionListsUpTo, opts2 \in OptionListsUpTo :
        mnt = [pc |-> "call", opts1 |-> opts1, opts2 |-> opts2,
               r1 |-> parse_mount(<<>>), r2 |-> parse_mount(<<>>),
               r12 |-> parse_mount(<<>>)]

restMnt == <<hvars, rvars, cvars, bvars, fvars, gvars, uni, ctl, rdt, fg, vid, ns, umask>>

\* parse_mount of a mount with each of the two lists and with the two
\* lists one after the other.
Mnt_Parse ==
    /\ mnt.pc = "call"
    /\ mnt' = [mnt EXCEPT !.pc = "done",
                          !.r1 = parse_mount(mnt.opts1),
                          !.r2 = parse_mount(mnt.opts2),
                          !.r12 = parse_mount(mnt.opts1 \o mnt.opts2)]
    /\ UNCHANGED restMnt
NextMnt == Mnt_Parse

\* ---------------------------------------------------------------------
\* Device::create_devices (libcontainer/src/rootfs/device.rs)
\* ---------------------------------------------------------------------
\* The umasks a process may have when it calls: 0o022, 0o077 and 0.
Umasks == {18, 63, 0}
MaxDevices == 3
\* A device of the list: whether its path starts with /dev.
RECURSIVE DeviceLists(_)
DeviceLists(n) ==
    IF n = 0 THEN {<<>>}
    ELSE {Append(s, [in_dev |-> d]) : s \in DeviceLists(n - 1), d \in BOOLEAN}
\* bind_dev and mknod_dev: the steps that can fail.
DevFailures(bind) ==
    IF bind THEN {"none", "create_container_dev_path", "open", "close", "mount"}
    ELSE {"none", "create_container_dev_path", "mknod", "chown"}
InitUmask ==
    \E n \in 0..MaxDevices : \E devices \in DeviceLists(n) :
      \E bind \in BOOLEAN, mask \in Umasks :
        umask = [pc |-> "call", devices |-> devices, bind |-> bind,
                 before |-> mask, umask |-> mask, old_mode |-> 0,
                 created |-> 0, result |-> "-"]

restUmask == <<hvars, rvars, cvars, bvars, fvars, gvars, uni, ctl, rdt, fg, vid, ns, mnt>>

\* create_devices, line 55: let old_mode = umask(0o000)
Um_SetUmask ==
    /\ umask.pc = "call"
    /\ umask' = [umask EXCEPT !.pc = "devices", !.old_mode = umask.umask,
                              !.umask = 0]
    /\ UNCHANGED restUmask
\* create_devices, lines 56-73: the closure on the next device; collect()?
\* returns the first error.
Um_Device ==
    /\ umask.pc = "devices" /\ umask.devices # <<>>
    /\ IF ~Head(umask.devices).in_dev
       THEN umask' = [umask EXCEPT !.pc = "returned",
                                   !.result = "InvalidDevicePath"]
       ELSE \E failure \in DevFailures(umask.bind) :
              umask' = IF failure = "none"
                       THEN [umask EXCEPT !.devices = Tail(@),
                                          !.created = @ + 1]
                       ELSE [umask EXCEPT !.pc = "returned",
                                          !.result = failure]
    /\ UNCHANGED restUmask
\* create_devices, lines 74-76: umask(old_mode); Ok(())
Um_Restore ==
    /\ umask.pc = "devices" /\ umask.devices = <<>>
    /\ umask' = [umask EXCEPT !.pc = "returned", !.umask = umask.old_mode,
                              !.result = "Ok"]
    /\ UNCHANGED restUmask
NextUmask == Um_SetUmask \/ Um_Device \/ Um_Restore

Idle == [pc |-> "idle"]
IdleUni == uni = Idle
IdleCtl == ctl = Idle
IdleRdt == rdt = Idle
IdleFg == fg = Idle
IdleVid == vid = Idle
IdleNs == ns = Idle
IdleMnt == mnt = Idle
IdleUmask == umask = Idle
IdleX ==
    /\ IdleUni /\ IdleCtl /\ IdleRdt /\ IdleFg /\ IdleVid /\ IdleNs /\ IdleMnt
    /\ IdleUmask
IdleOld == IdleH /\ IdleR /\ IdleC /\ IdleB /\ IdleF
IdleG == IdleDev /\ IdleMem /\ IdleCpu /\ IdleCset /\ IdleX

(***************************************************************************)
(* The specifications.                                                     *)
(***************************************************************************)
\* The creation handshake.
Init == InitH /\ IdleR /\ IdleC /\ IdleB /\ IdleF /\ IdleG
Next == NextH
Spec == Init /\ [][Next]_vars

\* The creation handshake when every process that can take a step
\* eventually takes one (a failure is never forced).
SpecFair ==
    /\ Spec
    /\ WF_vars(Main)
    /\ WF_vars(InterStep)
    /\ WF_vars(InitStep)
    /\ WF_vars(C_Finish)

\* The typed receives.
InitRecv == IdleH /\ InitR /\ IdleC /\ IdleB /\ IdleF /\ IdleG
SpecRecv == InitRecv /\ [][NextR]_vars

\* The container status.
InitStatus == IdleH /\ IdleR /\ InitC /\ IdleB /\ IdleF /\ IdleG
SpecStatus == InitStatus /\ [][NextC]_vars

\* The builds of one container id.
InitBuild == IdleH /\ IdleR /\ IdleC /\ InitB /\ IdleF /\ IdleG
SpecBuild == InitBuild /\ [][NextB]_vars

\* The freezer.
InitFreezer == IdleH /\ IdleR /\ IdleC /\ IdleB /\ InitF /\ IdleG
SpecFreezer == InitFreezer /\ [][NextF]_vars
SpecFreezerFair == SpecFreezer /\ WF_vars(NextF)

\* The device program.
InitDevice == IdleH /\ IdleR /\ IdleC /\ IdleB /\ IdleF /\ InitDev /\ IdleMem /\ IdleCpu /\ IdleCset /\ IdleX
SpecDevice == InitDevice /\ [][NextDev]_vars

\* The v2 memory controller.
InitMemory == IdleH /\ IdleR /\ IdleC /\ IdleB /\ IdleF /\ IdleDev /\ InitMem /\ IdleCpu /\ IdleCset /\ IdleX
SpecMemory == InitMemory /\ [][NextMem]_vars

\* The cpu controllers.
InitCpus == IdleH /\ IdleR /\ IdleC /\ IdleB /\ IdleF /\ IdleDev /\ IdleMem /\ InitCpu /\ IdleCset /\ IdleX
SpecCpu == InitCpus /\ [][NextCpu]_vars

InitCpuSet == IdleH /\ IdleR /\ IdleC /\ IdleB /\ IdleF /\ IdleDev /\ IdleMem /\ IdleCpu /\ InitCset /\ IdleX
SpecCpuSet == InitCpuSet /\ [][NextCset]_vars

InitUnified == IdleOld /\ IdleDev /\ IdleMem /\ IdleCpu /\ IdleCset /\ InitUni /\ IdleCtl /\ IdleRdt /\ IdleFg /\ IdleVid /\ IdleNs /\ IdleMnt /\ IdleUmask
SpecUnified == InitUnified /\ [][NextUni]_vars

InitControllers == IdleOld /\ IdleDev /\ IdleMem /\ IdleCpu /\ IdleCset /\ IdleUni /\ InitCtl /\ IdleRdt /\ IdleFg /\ IdleVid /\ IdleNs /\ IdleMnt /\ IdleUmask
SpecControllers == InitControllers /\ [][NextCtl]_vars

InitIntelRdt == IdleOld /\ IdleDev /\ IdleMem /\ IdleCpu /\ IdleCset /\ IdleUni /\ IdleCtl /\ InitRdt /\ IdleFg /\ IdleVid /\ IdleNs /\ IdleMnt /\ IdleUmask
SpecIntelRdt == InitIntelRdt /\ [][NextRdt]_vars

InitForeground == IdleOld /\ IdleDev /\ IdleMem /\ IdleCpu /\ IdleCset /\ IdleUni /\ IdleCtl /\ IdleRdt /\ InitFg /\ IdleVid /\ IdleNs /\ IdleMnt /\ IdleUmask
SpecForeground == InitForeground /\ [][NextFg]_vars

InitValidateId == IdleOld /\ IdleDev /\ IdleMem /\ IdleCpu /\ IdleCset /\ IdleUni /\ IdleCtl /\ IdleRdt /\ IdleFg /\ InitVid /\ IdleNs /\ IdleMnt /\ IdleUmask
SpecValidateId == InitValidateId /\ [][NextVid]_vars

InitNamespaces == IdleOld /\ IdleDev /\ IdleMem /\ IdleCpu /\ IdleCset /\ IdleUni /\ IdleCtl /\ IdleRdt /\ IdleFg /\ IdleVid /\ InitNs /\ IdleMnt /\ IdleUmask
SpecNamespaces == InitNamespaces /\ [][NextNs]_vars

InitParseMount == IdleOld /\ IdleDev /\ IdleMem /\ IdleCpu /\ IdleCset /\ IdleUni /\ IdleCtl /\ IdleRdt /\ IdleFg /\ IdleVid /\ IdleNs /\ InitMnt /\ IdleUmask
SpecParseMount == InitParseMount /\ [][NextMnt]_vars

InitCreateDevices == IdleOld /\ IdleDev /\ IdleMem /\ IdleCpu /\ IdleCset /\ IdleUni /\ IdleCtl /\ IdleRdt /\ IdleFg /\ IdleVid /\ IdleNs /\ IdleMnt /\ InitUmask
SpecCreateDevices == InitCreateDevices /\ [][NextUmask]_vars


(***************************************************************************)
(* Properties of the creation handshake.                                   *)
(***************************************************************************)
\* main has done the event ev; the position of its first occurrence.
HasEv(ev) == \E i \in 1..Len(log) : log[i] = ev
Idx(ev) == CHOOSE i \in 1..Len(log) : log[i] = ev /\ \A j \in 1..(i-1) : log[j] # ev
\* If main has done b, it has done a before.
Ordered(a, b) == HasEv(b) => HasEv(a) /\ Idx(a) < Idx(b)
Written(f) == \E i \in 1..Len(proc_writes) : proc_writes[i] = f

\* C1: main handles the handshake in the order mapping request, id
\* mappings, MappingWritten (all three only with a user namespace), then
\* IntermediateReady, then the seccomp exchange (only with a seccomp
\* profile), then InitReady; MappingWritten is never sent before both id
\* maps are written, IntermediateReady never accepted before MappingWritten
\* was sent when a user namespace is configured, and the init pid never
\* returned before InitReady was received.
C1_HandshakeOrder ==
    /\ Ordered(<<"recv", "WriteMapping">>, <<"setup_mapping", "-">>)
    /\ Ordered(<<"setup_mapping", "-">>, <<"send", "MappingWritten">>)
    /\ HasEv(<<"recv", "WriteMapping">>) => container_args.userns
    /\ HasEv(<<"send", "MappingWritten">>) =>
          Written("uid_map") /\ Written("gid_map")
    /\ container_args.userns =>
          Ordered(<<"send", "MappingWritten">>, <<"recv", "IntermediateReady">>)
    /\ Ordered(<<"recv", "IntermediateReady">>, <<"recv", "SeccompNotify">>)
    /\ HasEv(<<"recv", "SeccompNotify">>) => container_args.seccomp # "none"
    /\ Ordered(<<"recv", "SeccompNotify">>, <<"send", "SeccompNotifyDone">>)
    /\ Ordered(<<"recv", "IntermediateReady">>, <<"recv", "InitReady">>)
    /\ HasEv(<<"recv", "SeccompNotify">>) =>
          Ordered(<<"send", "SeccompNotifyDone">>, <<"recv", "InitReady">>)
    /\ Ordered(<<"recv", "InitReady">>, <<"return", "Ok">>)
    /\ main_result.kind = "Ok" => main_result.pid = initPid /\ initPid \in Pids

\* A creation with a user namespace and a seccomp notify exchange succeeded.
C1_Witness ==
    /\ main_result.kind = "Ok"
    /\ container_args.userns
    /\ HasEv(<<"send", "SeccompNotifyDone">>)

\* C2 as stated: whenever main writes uid_map or gid_map, deny was written
\* to setgroups before.
C2_DenyBeforeEveryMapping ==
    \A i \in 1..Len(proc_writes) :
        proc_writes[i] \in {"uid_map", "gid_map"} =>
            \E j \in 1..(i-1) : proc_writes[j] = "setgroups"

\* C2, amended: with an unprivileged user namespace configuration deny is
\* written to setgroups before uid_map and gid_map, with a privileged one
\* setgroups is not written at all; nothing is written before the mapping
\* request was received, and when the setgroups write fails neither map is
\* written.
C2_DenyBeforeMappingUnprivileged ==
    /\ ~container_args.privileged => C2_DenyBeforeEveryMapping
    /\ container_args.privileged => ~Written("setgroups")
    /\ proc_writes # <<>> => HasEv(<<"recv", "WriteMapping">>)
    /\ main_result.err = "SetGroupsDeny" => proc_writes = <<>>

\* An unprivileged mapping was written completely.
C2_Witness ==
    /\ ~container_args.privileged
    /\ proc_writes = <<"setgroups", "uid_map", "gid_map">>

C8_WaitOutcomeTolerated ==
    wait_status # "none" =>
        /\ HasEv(<<"recv", "InitReady">>)
        /\ IF wait_status \in {"Exited0", "ExitedNonZero", "Signaled", "ECHILD"}
           THEN main_result =
                    Ok(initPid, need_to_clean_up_intel_rdt_subdirectory)
           ELSE main_result = Err("WaitIntermediateProcess")

\* The intermediate was killed by a signal and the creation succeeded.
C8_Witness ==
    /\ wait_status = "Signaled"
    /\ main_result.kind = "Ok"

(***************************************************************************)
(* Properties of the typed receives.                                       *)
(***************************************************************************)
\* The tag each typed receive expects.
ExpectedTag(op) ==
    CASE op = "wait_for_mapping_request" -> "WriteMapping"
      [] op = "wait_for_intermediate_ready" -> "IntermediateReady"
      [] op = "wait_for_seccomp_request" -> "SeccompNotify"
      [] op = "wait_for_init_ready" -> "InitReady"
      [] op = "wait_for_mapping_ack" -> "MappingWritten"
      [] op = "wait_for_seccomp_request_done" -> "SeccompNotifyDone"

\* The typed receive just done got a message and answered as op answers a
\* message with another tag than the expected one: UnexpectedMessage.
AnswersUnexpected ==
    rcv.done.result = [kind |-> "UnexpectedMessage",
                       expected |-> ExpectedTag(rcv.done.op),
                       received |-> rcv.done.msg.tag, val |-> 0]

\* C9 as stated: a typed receive succeeds only on its expected tag and
\* answers every other tag with UnexpectedMessage{expected, received}.
C9_OtherTagUnexpected ==
    (rcv.done.op # "none" /\ rcv.done.msg # RecvFailed) =>
        IF rcv.done.msg.tag = ExpectedTag(rcv.done.op)
        THEN rcv.done.result.kind # "UnexpectedMessage"
        ELSE AnswersUnexpected

\* C9, amended: as stated, except that wait_for_intermediate_ready answers
\* ExecFailed with ExecError and OtherError with OtherError, and
\* wait_for_init_ready answers ExecFailed with ExecError.
C9_OtherTagUnexpectedButErrors ==
    (rcv.done.op # "none" /\ rcv.done.msg # RecvFailed) =>
        LET op == rcv.done.op
            tag == rcv.done.msg.tag
            res == rcv.done.result
        IN  /\ res.kind = "Ok" => tag = ExpectedTag(op)
            /\ CASE tag = ExpectedTag(op) -> res.kind # "UnexpectedMessage"
                 [] op = "wait_for_intermediate_ready" /\ tag = "ExecFailed" ->
                        res.kind = "ExecError"
                 [] op = "wait_for_intermediate_ready" /\ tag = "OtherError" ->
                        res.kind = "OtherError"
                 [] op = "wait_for_init_ready" /\ tag = "ExecFailed" ->
                        res.kind = "ExecError"
                 [] OTHER -> AnswersUnexpected

\* wait_for_init_ready received ExecFailed.
C9_Witness ==
    /\ rcv.done.op = "wait_for_init_ready"
    /\ rcv.done.msg.tag = "ExecFailed"
    /\ rcv.done.result.kind = "ExecError"

(***************************************************************************)
(* Properties of the container status.                                     *)
(***************************************************************************)
\* The lifecycle Creating -> Created -> Running -> (Paused <-> Running) ->
\* Stopped: the statuses that lie at or after status a.
Onward(a) ==
    CASE a = "Creating" -> Statuses
      [] a = "Created" -> {"Created", "Running", "Paused", "Stopped"}
      [] a = "Running" -> {"Running", "Paused", "Stopped"}
      [] a = "Paused" -> {"Paused", "Running", "Stopped"}
      [] a = "Stopped" -> {"Stopped"}

\* C5: the status only moves along the lifecycle; in particular a Stopped
\* container stays Stopped whatever owns the recorded pid.
C5_StatusFollowsLifecycle ==
    [][state'.status \in Onward(state.status)]_vars

\* C7: after a refresh_status, Running or Paused means that a pid is
\* recorded and its process was found in a state other than Zombie and
\* Dead; no pid, no process, or a Zombie or Dead process means Stopped;
\* otherwise the status is Running, unless it was Creating, Created or
\* Paused, which it then still is.
C7_RefreshedStatus ==
    (last.op = "refresh_status" /\ last.ok) =>
        LET gone == last.pid = 0 \/ ~last.found
                      \/ last.obs \in {"Zombie", "Dead"}
        IN  /\ state.status \in {"Running", "Paused"} => ~gone
            /\ gone => state.status = "Stopped"
            /\ ~gone => state.status =
                           IF last.before \in {"Creating", "Created", "Paused"}
                           THEN last.before ELSE "Running"

\* A refresh of a paused container whose process is alive.
C7_Witness ==
    /\ last.op = "refresh_status" /\ last.ok
    /\ last.before = "Paused" /\ last.found /\ last.obs = "Sleeping"
    /\ state.status = "Paused"

(***************************************************************************)
(* Properties of the builds of one container id.                           *)
(***************************************************************************)
\* The builds that got past createContainerRoot.
PastContainerRoot ==
    {b \in Builds :
        \/ build_pc[b] \in {"createContainer", "create"}
        \/ build_pc[b] = "returned"
           /\ build_result[b] \in {"OtherIO(state)", "Ok", "Err"}}

\* C6: at most one build of the id gets past createContainerRoot.
C6_AtMostOneBuildPasses == Cardinality(PastContainerRoot) <= 1

(***************************************************************************)
(* Properties of the freezer.                                              *)
(***************************************************************************)
\* C10: the apply with target Frozen ends after at most 1000 iterations,
\* 1000 writes of FROZEN and 1000 reads; it succeeds exactly when a read
\* returns FROZEN after only FREEZING reads, fails with UnexpectedState at
\* the first read that is neither, and with UnableToFreeze when all 1000
\* reads return FREEZING; with target Thawed it writes THAWED once and
\* reads nothing.
C10_FreezerOutcome ==
    /\ frz.i <= 1000 /\ frz.frozen_writes <= 1000 /\ frz.reads <= 1000
    /\ frz.reads <= frz.frozen_writes
    /\ (frz.pc = "returned" /\ frz.target = "Frozen") =>
          /\ frz.result = "Ok" <=>
                (frz.last_read = "FROZEN" /\ frz.earlier_reads_freezing)
          /\ frz.result = "UnexpectedState" <=>
                frz.last_read \notin {"none", "FREEZING", "FROZEN"}
          /\ frz.result = "UnexpectedState" => frz.earlier_reads_freezing
          /\ frz.result = "UnableToFreeze" <=> frz.freezing_reads = 1000
          /\ frz.result \in {"Ok", "UnexpectedState", "UnableToFreeze",
                             "WrappedIo"}
    /\ (frz.pc = "returned" /\ frz.target = "Thawed") =>
          frz.thawed_writes = 1 /\ frz.reads = 0 /\ frz.frozen_writes = 0
C10_FreezerTerminates ==
    /\ <>(frz.pc = "returned")
    /\ []C10_FreezerOutcome

\* All 1000 reads returned FREEZING.
C10_Witness ==
    /\ frz.pc = "returned"
    /\ frz.result = "UnableToFreeze"
    /\ frz.reads = 1000

(***************************************************************************)
(* Properties of the device program.                                       *)
(***************************************************************************)
Chars(str) == {str[i] : i \in 1..Len(str)}
Wildcard(o) == o = None \/ ~NonNegative(unwrap(o))

\* The rule matches the request: same device type, requested access within
\* the rule's access, major and minor equal to the rule's or a wildcard.
Matches(rule, q) ==
    /\ rule.typ = Some(q.typ)
    /\ Chars(q.access) \subseteq Chars(unwrap_or(rule.access, <<>>))
    /\ Wildcard(rule.major) \/ unwrap(rule.major) = ZeroExtend(q.major)
    /\ Wildcard(rule.minor) \/ unwrap(rule.minor) = ZeroExtend(q.minor)

\* What the last matching rule says, or the default when none matches.
LastMatchAllows(rules, default_allow, q) ==
    LET m == {i \in 1..Len(rules) : Matches(rules[i], q)}
    IN  IF m = {} THEN default_allow
        ELSE rules[CHOOSE i \in m : \A j \in m : j <= i].allow

Allowed(b) == I64(IF b THEN 1 ELSE 0)

\* C11: a compiled program, run on a request, returns the allow value of the
\* last rule of the list that matches the request, and the default when no
\* rule matches.
C11_LastMatchingRuleWins ==
    dev.pc = "executed" /\ dev.result.ok =>
        dev.result.val = Allowed(LastMatchAllows(dev.rules, dev.default_allow, dev.req))

\* The same, for the rule lists whose majors and minors all fit in 32 bits.
FitsU32(o) == o = None \/ ~NonNegative(unwrap(o)) \/ unwrap(o) = ZeroExtend(unwrap(o))
LastMatchingRuleWinsBelow2To32 ==
    (\A i \in 1..Len(dev.rules) :
        FitsU32(dev.rules[i].major) /\ FitsU32(dev.rules[i].minor))
    => C11_LastMatchingRuleWins

\* The rules and the request of the example: allow c 1:3 rwm, deny c *:* rwm,
\* default allow, a read of the character device 1:3.
ExampleRules ==
    << Rule(Some("c"), Some(I64(1)), Some(I64(3)), Some(<<"r", "w", "m">>), TRUE),
       Rule(Some("c"), Some(I64(-1)), Some(I64(-1)), Some(<<"r", "w", "m">>), FALSE) >>
ExampleRun ==
    /\ dev.pc = "executed"
    /\ dev.rules = ExampleRules
    /\ dev.default_allow
    /\ dev.req = Request("c", U32(1), U32(3), <<"r">>)

\* C12, as stated: the program of the example returns 1 (allow).
C12_ExampleReturnsAllow == ExampleRun => dev.result.ok /\ dev.result.val = I64(1)

\* C12, as the code has it: the program of the example returns 0 (deny),
\* the value of deny c *:* rwm, which is the last rule that matches.
C12_ExampleReturnsDeny == ExampleRun => dev.result.ok /\ dev.result.val = I64(0)
C12_Witness == ExampleRun /\ dev.result.ok

(***************************************************************************)
(* Properties of the v2 memory controller.                                 *)
(***************************************************************************)
\* The apply wrote the text to the file.
MemWrote(file, text) ==
    \E i \in 1..Len(memcg.st.writes) : memcg.st.writes[i] = <<file, text>>
\* How a value is written: -1 as max, any other as its digits.
MemText(val) == IF val = -1 THEN "max" ELSE ToString(val)

\* An apply that returned, given a limit and a swap, with no write failing.
MemLimitAndSwap ==
    /\ memcg.pc = "returned"
    /\ memcg.st.fail_at = 0
    /\ memcg.memory.limit # None /\ unwrap(memcg.memory.limit) >= -1
    /\ memcg.memory.swap # None /\ unwrap(memcg.memory.swap) >= -1

\* C13: with a limit and a swap that are both at least -1, `max` goes to
\* memory.swap.max and the limit to memory.max when either is -1; otherwise,
\* when swap >= limit, swap - limit goes to memory.swap.max (0 included) and
\* the limit to memory.max.
C13_SwapEncoding ==
    MemLimitAndSwap =>
        LET limit == unwrap(memcg.memory.limit)
            swap == unwrap(memcg.memory.swap)
        IN  IF limit = -1 \/ swap = -1
            THEN /\ MemWrote(CGROUP_MEMORY_SWAP, "max")
                 /\ MemWrote(CGROUP_MEMORY_MAX, MemText(limit))
            ELSE swap >= limit =>
                 /\ MemWrote(CGROUP_MEMORY_SWAP, ToString(swap - limit))
                 /\ MemWrote(CGROUP_MEMORY_MAX, ToString(limit))

\* What the code does write: the statement for a limit above 0 and a swap
\* that is -1 or above the limit, the example of 200 MiB and 300 MiB included.
SwapEncodingAboveLimit ==
    MemLimitAndSwap =>
        LET limit == unwrap(memcg.memory.limit)
            swap == unwrap(memcg.memory.swap)
        IN  limit > 0 /\ (swap = -1 \/ swap > limit) =>
               /\ memcg.st.files[CGROUP_MEMORY_SWAP] =
                     (IF swap = -1 THEN "max" ELSE ToString(swap - limit))
               /\ memcg.st.files[CGROUP_MEMORY_MAX] = ToString(limit)
               /\ (limit = 200 * MiB /\ swap = 300 * MiB =>
                      memcg.st.files[CGROUP_MEMORY_SWAP] = ToString(100 * MiB))

\* The request is invalid: a value below -1, a swap without a limit, or a
\* swap below the limit when both are non-negative.
MemBelow(o, n) == o # None /\ unwrap(o) < n
MemInvalid(memory) ==
    \/ MemBelow(memory.limit, -1)
    \/ MemBelow(memory.swap, -1)
    \/ MemBelow(memory.reservation, -1)
    \/ memory.swap # None /\ memory.limit = None
    \/ /\ memory.swap # None /\ memory.limit # None
       /\ unwrap(memory.swap) >= 0 /\ unwrap(memory.limit) >= 0
       /\ unwrap(memory.swap) < unwrap(memory.limit)

\* C14: an invalid request is rejected with an error and no cgroup file is
\* written; memory.max, memory.swap.max and memory.low are as before.
C14_InvalidRejectedUnwritten ==
    memcg.pc = "returned" /\ MemInvalid(memcg.memory) =>
        /\ memcg.st.result # "Ok"
        /\ memcg.st.writes = <<>>
        /\ memcg.st.files = MemoryFilesBefore

\* The part that holds: an invalid request never returns Ok.
InvalidMemoryGivesError ==
    memcg.pc = "returned" /\ MemInvalid(memcg.memory) => memcg.st.result # "Ok"

(***************************************************************************)
(* Properties of the cpu controllers.                                      *)
(***************************************************************************)
\* The shares of the request, 0 when it has none.
CpuShares == unwrap_or(cpu.cpu.shares, <<>>)
Below2To32(d) == Less(d, Pow2(32))
CpuConverted == cpu.pc \in {"systemd", "done"}

\* C15: for shares in [0, 2^32) the v2 conversion returns 0 exactly for the
\* shares 0, otherwise a weight from 1 to 10000, and more shares never give
\* a smaller weight.
C15_WeightInRangeAndMonotone ==
    CpuConverted /\ Below2To32(CpuShares) /\ Below2To32(cpu.other) =>
        /\ ~cpu.weight.panic /\ ~cpu.weight_other.panic
        /\ cpu.weight.val = <<>> <=> CpuShares = <<>>
        /\ CpuShares # <<>> =>
              /\ Leq(FromNat(1), cpu.weight.val)
              /\ Leq(cpu.weight.val, FromNat(10000))
        /\ Leq(CpuShares, cpu.other) => Leq(cpu.weight.val, cpu.weight_other.val)
\* Shares of the largest weight, and larger shares of the 32-bit range.
C15_Witness ==
    /\ CpuConverted
    /\ CpuShares = FromNat(262171)
    /\ cpu.other = SubSmall(Pow2(32), 1)
    /\ cpu.weight = Value(FromNat(10000))
    /\ cpu.weight_other = Value(FromNat(10000))

\* The systemd apply returned Ok for the shares n.
CpuAppliedShares(n) ==
    cpu.pc = "done" /\ cpu.result = "Ok" /\ cpu.cpu.shares = Some(FromNat(n))

\* C16, as stated: shares 1024 give the weight 40, shares 2 the weight 1 and
\* shares 0 the weight 0, in the v2 and in the systemd conversion.
C16_Shares1024Give40 ==
    /\ CpuConverted /\ cpu.cpu.shares = Some(FromNat(1024)) =>
          cpu.weight = Value(FromNat(40))
    /\ CpuConverted /\ cpu.cpu.shares = Some(FromNat(2)) =>
          cpu.weight = Value(FromNat(1))
    /\ CpuConverted /\ cpu.cpu.shares = Some(FromNat(0)) =>
          cpu.weight = Value(FromNat(0))
    /\ CpuAppliedShares(1024) => cpu.properties.CPUWeight = Some(FromNat(40))
    /\ CpuAppliedShares(2) => cpu.properties.CPUWeight = Some(FromNat(1))
    /\ CpuAppliedShares(0) => cpu.properties.CPUWeight = None

\* C16, as the code has it: 1 + (1022 * 9999) / 262142 is 1 + 38, so shares
\* 1024 give the weight 39; shares 2 give 1 and shares 0 give 0 (and no
\* CPUWeight property).
C16_Shares1024Give39 ==
    /\ CpuConverted /\ cpu.cpu.shares = Some(FromNat(1024)) =>
          cpu.weight = Value(FromNat(39))
    /\ CpuConverted /\ cpu.cpu.shares = Some(FromNat(2)) =>
          cpu.weight = Value(FromNat(1))
    /\ CpuConverted /\ cpu.cpu.shares = Some(FromNat(0)) =>
          cpu.weight = Value(FromNat(0))
    /\ CpuAppliedShares(1024) => cpu.properties.CPUWeight = Some(FromNat(39))
    /\ CpuAppliedShares(2) => cpu.properties.CPUWeight = Some(FromNat(1))
    /\ CpuAppliedShares(0) => cpu.properties.CPUWeight = None
C16_Witness == CpuAppliedShares(1024) /\ cpu.weight = Value(FromNat(39))

\* C17: the systemd conversion gives what the v2 conversion gives, so the
\* CPUWeight set is the v2 weight and never above 10000.
C17_SystemdWeightIsV2Weight ==
    cpu.pc = "done" /\ cpu.result = "Ok" /\ cpu.cpu.shares # None =>
        /\ cpu.properties.CPUWeight =
              (IF cpu.weight.val = <<>> THEN None ELSE Some(cpu.weight.val))
        /\ cpu.properties.CPUWeight # None =>
              Leq(unwrap(cpu.properties.CPUWeight), FromNat(10000))

\* What holds of the two conversions: they agree up to the shares 262170,
\* the last whose unclamped weight is 10000.
SystemdWeightIsV2WeightUpTo262170 ==
    Leq(CpuShares, FromNat(262170)) => C17_SystemdWeightIsV2Weight

\* The period the claim has the quota divided by.
CpuPeriodOrDefault ==
    IF cpu.cpu.period # None /\ unwrap(cpu.cpu.period) # <<>>
    THEN unwrap(cpu.cpu.period) ELSE FromNat(DefaultPeriod)
\* The per-second quota of the claim, computed exactly.
CpuQuotaPerSec ==
    IF cpu.cpu.quota # None /\ Positive(unwrap(cpu.cpu.quota))
    THEN DivSmall(MulSmall(unwrap(cpu.cpu.quota).mag, MICROSECS_PER_SEC),
                  ToNat(CpuPeriodOrDefault))
    ELSE U64_MAX
\* The shares convert without overflow and no realtime field is set.
CpuQuotaReached ==
    /\ cpu.pc = "done" /\ ~cpu.cpu.realtime
    /\ Leq(MulSmall(CpuShares, 9999), U64_MAX)

\* C18: for every quota and period the systemd apply completes without an
\* arithmetic fault and sets CPUQuotaPerSecUSec to quota * 1_000_000 /
\* period for a quota above 0 (period 100_000 when absent or not positive),
\* and to u64::MAX otherwise.
C18_QuotaPerSecond ==
    CpuQuotaReached =>
        /\ cpu.result = "Ok"
        /\ cpu.properties.CPUQuotaPerSecUSec = Some(CpuQuotaPerSec)

\* What holds: the same for a period that is not 0 and a quota whose
\* product with 10^6 is within u64.
QuotaPerSecondInRange ==
    /\ cpu.cpu.period # Some(<<>>)
    /\ cpu.cpu.quota # None =>
          Leq(unwrap(cpu.cpu.quota).mag, DivSmall(U64_MAX, MICROSECS_PER_SEC))
    => C18_QuotaPerSecond

\* ---------------------------------------------------------------------
\* systemd cpuset: the bitmask
\* ---------------------------------------------------------------------
BitmaskDone == cset.op = "to_bitmask" /\ cset.done
\* The bytes of a set of indices, the most significant byte first, without
\* a leading zero byte: bit i of the number is set iff i is in the set.
MostSignificantFirst(named) ==
    IF named = {} THEN <<>>
    ELSE LET top == CHOOSE i \in named : \A j \in named : j <= i
             n == (top \div 8) + 1
         IN  [k \in 1..n |-> ByteOf(named, 8 * (n - k))]
BitmaskIsOfNamed ==
    /\ cset.bitmask.ok
    /\ cset.bitmask.bytes = MostSignificantFirst(cset.named)

\* C19: for every comma-separated list of indices and ranges start-end with
\* start <= end, of any size, to_bitmask returns normally the bytes, most
\* significant first and without a leading zero byte, in which bit i is set
\* iff the list names index i.
C19_BitmaskOfEveryList ==
    (BitmaskDone /\ cset.kinds \subseteq {"index", "range"})
        => BitmaskIsOfNamed
\* What holds: the same for the lists whose single indices are below 16 and
\* whose indices are all below 32, empty and padded tokens included.
BitmaskOfListsBelow16And32 ==
    (/\ BitmaskDone
     /\ cset.kinds \subseteq {"index", "range", "empty", "padded"}
     /\ \A i \in cset.named : i < 32
     /\ \A part \in {p \in DOMAIN split(cset.range, ",") : TRUE} :
            LET text == str_trim(split(cset.range, ",")[part])
            IN  parse(text).ok => parse(text).val < 16)
        => BitmaskIsOfNamed
\* The example of the description: `0-3,7` gives the single byte 0x8F.
BitmaskExample ==
    (BitmaskDone /\ cset.range = <<"0", "-", "3", ",", "7">>)
        => cset.bitmask = BmOk(<<143>>)
BitmaskExampleReached ==
    BitmaskDone /\ cset.range = <<"0", "-", "3", ",", "7">>
\* The faults: a single index of 16 panics, and a second block comes after
\* the first one.
BitmaskNeverPanics == BitmaskDone => cset.bitmask.err # "panic"

\* ---------------------------------------------------------------------
\* systemd cpuset: the version
\* ---------------------------------------------------------------------
CsetApplied == cset.op \in {"cpuset", "unified"} /\ cset.done
CpusetRequested ==
    \/ /\ cset.op = "cpuset" /\ cset.cpu # None
       /\ (unwrap(cset.cpu).cpus # None \/ unwrap(cset.cpu).mems # None)
    \/ /\ cset.op = "unified" /\ cset.unified # None
       /\ \E e \in unwrap(cset.unified) :
              e.key \in {"cpuset.cpus", "cpuset.mems"}
NoCpusetProperty ==
    /\ cset.properties[ALLOWED_CPUS] = None
    /\ cset.properties[ALLOWED_NODES] = None
RequestedCpusetPropertiesSet ==
    /\ cset.op = "cpuset" =>
           /\ unwrap(cset.cpu).cpus # None =>
                  cset.properties[ALLOWED_CPUS] # None
           /\ unwrap(cset.cpu).mems # None =>
                  cset.properties[ALLOWED_NODES] # None
    /\ cset.op = "unified" =>
           \A e \in unwrap(cset.unified) :
               /\ e.key = "cpuset.cpus" => cset.properties[ALLOWED_CPUS] # None
               /\ e.key = "cpuset.mems" => cset.properties[ALLOWED_NODES] # None
\* A cpuset string that to_bitmask takes.
GoodCpuset(text) == \A w \in BlockWidths : to_bitmask(text, w).ok
AllCpusetsGood ==
    /\ cset.op = "cpuset" =>
           /\ \A t \in unwrap(cset.cpu).cpus : GoodCpuset(t)
           /\ \A t \in unwrap(cset.cpu).mems : GoodCpuset(t)
    /\ cset.op = "unified" =>
           \A e \in unwrap(cset.unified) :
               e.key \in {"cpuset.cpus", "cpuset.mems"} => GoodCpuset(e.value)
\* The other unified entries are well formed.
OtherEntriesGood ==
    cset.op = "unified" =>
        \A e \in unwrap(cset.unified) :
            Unified_apply_key(e.key, e.value, 244, EmptyProperties, 32,
                              TRUE).result
                \in {"Ok", "CpuSetCpu", "panic"}

\* C20: with a systemd version of 243 or lower the backend returns OldSystemd
\* when a cpuset setting is requested, and the cpuset controller succeeds
\* without a cpuset property when none is requested; above 243 the requested
\* cpuset properties are set.
C20_CpusetNeedsSystemdAbove243 ==
    /\ (/\ CsetApplied /\ cset.systemd_version <= 243 /\ CpusetRequested
        /\ OtherEntriesGood)
           => cset.result = "OldSystemd"
    /\ (/\ CsetApplied /\ cset.op = "cpuset"
        /\ cset.systemd_version <= 243 /\ ~CpusetRequested)
           => (cset.result = "Ok" /\ NoCpusetProperty)
    /\ (/\ CsetApplied /\ cset.systemd_version > 243 /\ CpusetRequested
        /\ AllCpusetsGood /\ OtherEntriesGood)
           => (cset.result = "Ok" /\ RequestedCpusetPropertiesSet)
\* What holds of the cpuset controller: OldSystemd for every cpu resource
\* under a version of 243 or lower, with or without a cpuset setting.
CpusetControllerOldSystemd ==
    (CsetApplied /\ cset.op = "cpuset" /\ cset.systemd_version <= 243)
        => /\ NoCpusetProperty
           /\ cset.result = (IF cset.cpu = None THEN "Ok" ELSE "OldSystemd")
OldSystemdWhenCpusetRequested ==
    (/\ CsetApplied /\ cset.systemd_version <= 243 /\ CpusetRequested
     /\ OtherEntriesGood)
        => cset.result = "OldSystemd"
CpusetSetAbove243 ==
    (/\ CsetApplied /\ cset.systemd_version > 243 /\ CpusetRequested
     /\ AllCpusetsGood /\ OtherEntriesGood)
        => (cset.result = "Ok" /\ RequestedCpusetPropertiesSet)

\* ---------------------------------------------------------------------
\* The unified dispatchers: keys outside the recognised set
\* ---------------------------------------------------------------------
UniDone == uni.pc = "done"
HasUnknownKey ==
    /\ uni.unified # None
    /\ \E i \in 1..Len(unwrap(uni.unified)) : unwrap(uni.unified)[i].key = "unknown"
WithoutUnknownKey == SelectSeq(unwrap(uni.unified), LAMBDA e : e.key # "unknown")
\* The systemd dispatcher does what it does on the map without the key.
SystemdAsWithoutUnknownKey ==
    LET r == Unified_apply(WithoutUnknownKey, uni.systemd_version,
                           EmptyProperties, uni.width, uni.checks)
    IN  uni.result = r.result /\ uni.properties = r.properties
\* The v2 dispatcher does what it does on the map without the key.
V2AsWithoutUnknownKey ==
    LET r == v2_Unified_apply_impl(WithoutUnknownKey, uni.before, uni.controllers)
    IN  uni.st.result = r.result /\ uni.st.files = r.files

\* C21: in both unified dispatchers a key outside the recognised set never
\* makes apply fail, changes no setting and does not keep the recognised keys
\* of the map from being applied: the outcome is that of the map without it
\* (no write of a recognised key failing by itself).
C21_UnknownKeyIgnored ==
    (UniDone /\ HasUnknownKey /\ uni.before.fail_at = 0)
        => /\ uni.backend = "systemd" => SystemdAsWithoutUnknownKey
           /\ uni.backend = "v2" => V2AsWithoutUnknownKey
\* What holds: the systemd dispatcher ignores the key.
SystemdUnknownKeyIgnored ==
    (UniDone /\ HasUnknownKey /\ uni.backend = "systemd")
        => SystemdAsWithoutUnknownKey
\* What the v2 dispatcher does with the key: it writes the file of that
\* name, and fails when there is none.
V2UnknownKeyWrittenOrFails ==
    (UniDone /\ HasUnknownKey /\ uni.backend = "v2" /\ uni.before.fail_at = 0)
        => \/ uni.st.result \in {"WrappedIo", "SubsystemNotAvailable"}
           \/ uni.st.files["unknown"] = <<"1">>

\* ---------------------------------------------------------------------
\* Controller applies: fields that are not set, and a second apply
\* ---------------------------------------------------------------------
CtlWrote(st, path) == \E i \in 1..Len(st.writes) : st.writes[i][1] = path
CtlOnce == ctl.pc \in {"once", "twice"}
\* No write to the file of a memory field that is not set.
UnsetMemoryFieldsUnwritten ==
    (ctl.controller = "v1 memory" /\ ctl.memory # None) =>
        LET mem == unwrap(ctl.memory)
        IN  /\ mem.limit = None => ~CtlWrote(ctl.once, CGROUP_MEMORY_LIMIT)
            /\ mem.swap = None => ~CtlWrote(ctl.once, CGROUP_MEMORY_SWAP_LIMIT)
            /\ mem.reservation = None =>
                   ~CtlWrote(ctl.once, CGROUP_MEMORY_RESERVATION)
            /\ mem.swappiness = None =>
                   ~CtlWrote(ctl.once, CGROUP_MEMORY_SWAPPINESS)
            /\ mem.kernel = None =>
                   ~CtlWrote(ctl.once, CGROUP_KERNEL_MEMORY_LIMIT)
            /\ mem.kernel_tcp = None =>
                   ~CtlWrote(ctl.once, CGROUP_KERNEL_TCP_MEMORY_LIMIT)
\* A memory resource without fields writes no memory file.
EmptyMemoryWritesNothing ==
    (ctl.controller = "v1 memory" /\ ctl.memory = Some(NoCtlMemory))
        => ctl.once.writes = <<>>
\* No write to the file of a cpu field that is not set.
UnsetCpuFieldsUnwritten ==
    ctl.controller = "v2 cpu" =>
        /\ ctl.cpu.shares = None => ~CtlWrote(ctl.once, CGROUP_CPU_WEIGHT)
        /\ (ctl.cpu.quota = None /\ ctl.cpu.period = None) =>
               ~CtlWrote(ctl.once, CGROUP_CPU_MAX)
        /\ ctl.cpu.burst = None => ~CtlWrote(ctl.once, CGROUP_CPU_BURST)
        /\ ctl.cpu.idle = None => ~CtlWrote(ctl.once, CGROUP_CPU_IDLE)
\* No property for a cpu field that is not set.
UnsetCpuFieldsNoProperty ==
    ctl.controller = "systemd cpu" =>
        /\ ctl.cpu.shares = None => ctl.once.properties[CPU_WEIGHT] = None
        /\ ctl.cpu.quota = None => ctl.once.properties[CPU_QUOTA] = None
        /\ ctl.cpu.period = None => ctl.once.properties[CPU_PERIOD] = None
\* The second apply leaves what the first one left.
TwiceAsOnce ==
    ctl.pc = "twice" =>
        /\ ctl.twice.result = "Ok"
        /\ ctl.twice.files = ctl.once.files
        /\ ctl.twice.properties = ctl.once.properties

\* C22: for every controller apply a field that is not set in the request
\* causes no write to its cgroup file and no systemd property (a cpu resource
\* without quota and period sets no quota or period property, a memory
\* resource without fields writes no memory file), and applying the request
\* twice leaves the files and properties of applying it once.
C22_UnsetFieldsNoOpAndIdempotent ==
    CtlOnce =>
        /\ UnsetMemoryFieldsUnwritten
        /\ EmptyMemoryWritesNothing
        /\ UnsetCpuFieldsUnwritten
        /\ UnsetCpuFieldsNoProperty
        /\ TwiceAsOnce
\* What holds: the v2 cpu controller writes no file of a field that is not
\* set, and a second apply leaves what the first one left.
V2CpuUnsetFieldsUnwritten == CtlOnce => UnsetCpuFieldsUnwritten
SecondApplyChangesNothing == TwiceAsOnce
\* The faults, each alone.
SystemdCpuUnsetFieldsNoProperty == CtlOnce => UnsetCpuFieldsNoProperty
V1EmptyMemoryWritesNothing == CtlOnce => EmptyMemoryWritesNothing
V1UnsetMemoryFieldsUnwritten == CtlOnce => UnsetMemoryFieldsUnwritten

\* ---------------------------------------------------------------------
\* setup_intel_rdt: the group, the schemata and the returned flag
\* ---------------------------------------------------------------------
RdtDone == rdt.pc = "done" /\ rdt.failAt # "mount"
RdtClosIdSet == rdt.intel_rdt \in {"clos_id", "clos_id_schema"}
RdtHasSchema == rdt.intel_rdt \in {"schema", "clos_id_schema"}
\* The group directory named by clos_id, or else by the container id.
RdtNamed == IF RdtClosIdSet THEN Some(ClosIdName) ELSE rdt.maybe_container_id
RdtBefore == rdt.before[unwrap(RdtNamed)]
RdtAfter == rdt.groups[unwrap(RdtNamed)]
RdtPidWritten == rdt.err \notin {"NoClosIDDirectory", "CreateClosIDDirectory", "WriteClosIDDirectory"}
\* Only the named group is touched; without a name nothing is.
RdtGroupNamed ==
    /\ \A g \in RdtGroupNames : Some(g) # RdtNamed => rdt.groups[g] = rdt.before[g]
    /\ RdtNamed = None => rdt.err = "ResctrlIdNotFound"
    /\ (RdtNamed # None /\ rdt.err = "-") => RdtAfter.dir /\ RdtAfter.tasks # 0
RdtOnlyClosIdNeedsDirectory ==
    (rdt.intel_rdt = "clos_id" /\ ~RdtBefore.dir) =>
        rdt.err = "NoClosIDDirectory" /\ rdt.groups = rdt.before
RdtExistingSchemataCompared ==
    (rdt.intel_rdt = "clos_id_schema" /\ RdtBefore.dir /\ RdtPidWritten) =>
        /\ RdtAfter.schemata = RdtBefore.schemata
        /\ (~RdtBefore.same_schema /\ rdt.failAt # "schemata") =>
               rdt.err = "ExistingSchemataMismatch"
        /\ rdt.err = "-" => RdtBefore.same_schema
RdtSchemaWritten ==
    (RdtHasSchema /\ RdtNamed # None /\ rdt.err = "-"
        /\ ~(RdtClosIdSet /\ RdtBefore.dir)) => RdtAfter.schemata = "combined"
RdtFlag ==
    (RdtNamed # None /\ rdt.err = "-") =>
        (rdt.flag <=> (~RdtClosIdSet /\ ~RdtBefore.dir /\ RdtAfter.dir))

\* C23: setup_intel_rdt works on the group named by clos_id when it is set
\* and by the container id otherwise; with only clos_id set and the group
\* directory absent it fails with NoClosIDDirectory and creates nothing; with
\* clos_id set and the directory already there the combined schema is only
\* compared (a mismatch is an error, the schemata file is not written); in
\* every other case with a schema the schema is written; the returned flag is
\* true exactly when the call created the directory and clos_id was not set.
C23_IntelRdtSetup ==
    RdtDone =>
        /\ RdtGroupNamed
        /\ RdtOnlyClosIdNeedsDirectory
        /\ RdtExistingSchemataCompared
        /\ RdtSchemaWritten
        /\ RdtFlag
\* clos_id and a schema, the directory was there with other schemata: the
\* call has failed with the mismatch.
C23_SchemataMismatchReached ==
    /\ RdtDone /\ rdt.intel_rdt = "clos_id_schema"
    /\ RdtBefore.dir /\ ~RdtBefore.same_schema
    /\ rdt.err = "ExistingSchemataMismatch"
\* Further cases of the claim that the model reaches.
RdtNoClosIdDirectoryReached ==
    RdtDone /\ rdt.intel_rdt = "clos_id" /\ rdt.err = "NoClosIDDirectory"
RdtFlagReached ==
    RdtDone /\ rdt.err = "-" /\ rdt.flag /\ rdt.intel_rdt = "schema"
        /\ RdtAfter.schemata = "combined"
RdtClosIdCreatedReached ==
    RdtDone /\ rdt.err = "-" /\ ~rdt.flag /\ rdt.intel_rdt = "clos_id_schema"
        /\ ~RdtBefore.dir /\ RdtAfter.schemata = "combined"

\* ---------------------------------------------------------------------
\* run in the foreground and detached
\* ---------------------------------------------------------------------
FgReturnedOk == fg.pc = "returned" /\ ~fg.detach /\ fg.result.ok
\* run returns after init has terminated, with the exit code of init.
FgReturnsExitCode ==
    FgReturnedOk =>
        /\ fg.returned_at \in {"zombie", "reaped", "killed"}
        /\ fg.init.how = "exited"
        /\ fg.result.val = fg.init.n
\* The termination of another child does not end the wait.
FgOthersReaped ==
    [][fg'.reaped # fg.reaped =>
          /\ fg'.pc = "reap" /\ fg'.foreground_result = fg.foreground_result
          /\ fg'.init = fg.init]_vars
\* Every signal received but SIGCHLD, SIGURG and SIGWINCH was forwarded.
FgForwards == fg.forwarded = fg.received \ {SIGCHLD, SIGURG, SIGWINCH}
\* The container is deleted after init has terminated and before run returns.
FgDeleted == FgReturnedOk => fg.deleted /\ fg.init.state # "alive"
\* Detached: run returns 0 after the start, has waited for nothing and has
\* deleted nothing.
FgDetached ==
    (fg.pc = "returned" /\ fg.detach /\ fg.result.ok) =>
        /\ fg.result.val = 0 /\ fg.returned_at = "alive"
        /\ fg.received = {} /\ ~fg.deleted /\ fg.reaped = 0

\* C24: in foreground mode run returns only after init itself has terminated
\* and returns the exit code of init; the termination of another child is
\* reaped without ending the wait; every signal received but SIGCHLD, SIGURG
\* and SIGWINCH is forwarded to init; the container is deleted after init has
\* terminated and before run returns. Detached, run returns 0 right after the
\* start, without waiting and without deleting.
C24_ForegroundRun ==
    /\ [](FgReturnsExitCode /\ FgForwards /\ FgDeleted /\ FgDetached)
    /\ FgOthersReaped
\* What holds: run returns after init has terminated, with the exit status
\* of an init that exited and the number of the signal of an init that was
\* killed by one.
FgReturnsStatusOrSignal ==
    FgReturnedOk =>
        /\ fg.returned_at = "reaped"
        /\ fg.result.val = fg.init.n
FgRestOfRun == [](FgForwards /\ FgDeleted /\ FgDetached) /\ FgOthersReaped
\* An init killed by a signal has been reaped and run has returned Ok.
FgSignaledInitReturned == FgReturnedOk /\ fg.init.how = "signaled"

\* ---------------------------------------------------------------------
\* The ids validate_id accepts
\* ---------------------------------------------------------------------
\* A-Z, a-z, 0-9, `_`, `+`, `-`, `.`
IdAlphabet == (65..90) \cup (97..122) \cup (48..57) \cup {95, 43, 45, 46}
GoodId(id) ==
    /\ id # <<>>
    /\ \A i \in 1..Len(id) : id[i] \in IdAlphabet
    /\ id # <<46>> /\ id # <<46, 46>>
\* C25: validate_id accepts an id if and only if it is not empty, has only
\* the characters A-Z, a-z, 0-9, `_`, `+`, `-`, `.` and is neither `.` nor
\* `..`; every other id is rejected with an invalid-id error before a
\* container directory or state is created.
C25_ValidateId ==
    /\ vid.validated = "Ok" => GoodId(vid.container_id)
    /\ vid.validated \in {"Empty", "FileName", "InvalidChars"} =>
           ~GoodId(vid.container_id) /\ vid.result = "InvalidID"
    /\ (vid.pc \in {"valid", "returned"} /\ vid.result # "InvalidInput") =>
           (vid.validated = "Ok" <=> GoodId(vid.container_id))
    /\ ~GoodId(vid.container_id) => ~vid.dir_created /\ ~vid.state_created
\* The id `..` has been rejected, nothing was created.
C25_DotDotRejected ==
    /\ vid.pc = "returned" /\ vid.container_id = <<46, 46>>
    /\ vid.result = "InvalidID" /\ vid.validated = "FileName"
    /\ ~vid.dir_created
\* Further cases the model reaches: `...` is accepted and built, a character
\* next to a range is rejected.
IdOfDotsBuilt ==
    vid.container_id = <<46, 46, 46>> /\ vid.result = "Ok" /\ vid.dir_created
IdWithBraceRejected ==
    vid.container_id = <<97, 123>> /\ vid.validated = "InvalidChars"

\* ---------------------------------------------------------------------
\* The channel endpoints of container_main_process
\* ---------------------------------------------------------------------
Closed(endpoint) == <<"close", endpoint>>
\* The number of times main has done the event ev.
Times(ev) == Cardinality({i \in 1..Len(log) : log[i] = ev})
\* Every occurrence of a comes before the first occurrence of b.
AllBefore(a, b) ==
    HasEv(b) => \A i \in 1..Len(log) : log[i] = a => i < Idx(b)
MainReceives ==
    {<<"recv", m>> : m \in {"WriteMapping", "IntermediateReady", "SeccompNotify", "InitReady"}}
\* The order of the closes among the steps of the handshake.
EndpointCloseOrder ==
    /\ Ordered(<<"clone", "-">>, Closed("main_sender"))
    /\ \A r \in MainReceives : Ordered(Closed("main_sender"), r)
    /\ container_args.userns =>
           Ordered(<<"send", "MappingWritten">>, Closed("inter_sender"))
    /\ Ordered(Closed("inter_sender"), <<"recv", "IntermediateReady">>)
    /\ Ordered(Closed("init_sender"), <<"recv", "InitReady">>)
    /\ \A e \in {"inter_receiver", "init_receiver", "main_receiver"} :
           Ordered(<<"recv", "InitReady">>, Closed(e))
\* Nothing is sent or received on an endpoint main has closed.
NoUseAfterClose ==
    /\ AllBefore(<<"send", "MappingWritten">>, Closed("inter_sender"))
    /\ AllBefore(<<"send", "SeccompNotifyDone">>, Closed("init_sender"))
    /\ \A r \in MainReceives : AllBefore(r, Closed("main_receiver"))
    /\ \A e \in Endpoints : Times(Closed(e)) <= 1
\* At the return each of the six endpoints has been closed exactly once.
AllEndpointsClosed ==
    /\ main_open = {}
    /\ \A e \in Endpoints : Times(Closed(e)) = 1

\* C26: main closes its copy of the main sender right after the clone and
\* before its first receive, the intermediate sender after MappingWritten
\* (at once without a user namespace) and before it waits for
\* IntermediateReady, the init sender before it waits for InitReady, the
\* three receivers only after InitReady; when the function returns, on
\* success or on error, each of the six endpoints has been closed exactly
\* once, and nothing is sent or received on a closed endpoint.
C26_EndpointsClosedOnEveryPath ==
    /\ EndpointCloseOrder
    /\ NoUseAfterClose
    /\ main_pc \in {"done", "error"} => AllEndpointsClosed
\* What holds: the order of the closes, no use after a close, and every
\* endpoint closed exactly once when the function returns Ok.
EndpointsClosedOnSuccess ==
    /\ EndpointCloseOrder
    /\ NoUseAfterClose
    /\ main_result.kind = "Ok" => AllEndpointsClosed
\* main has returned an error after the clone with endpoints still open.
ErrorReturnLeavesEndpointsOpen ==
    /\ main_pc = "error" /\ HasEv(Closed("main_sender"))
    /\ {"init_sender", "main_receiver"} \subseteq main_open

\* ---------------------------------------------------------------------
\* The writes of THAWED of the v1 freezer
\* ---------------------------------------------------------------------
\* THAWED was written once for each 50th iteration begun, and once more
\* after the loop when the result is an error.
FrzThawedCount ==
    frz.target = "Frozen" =>
        frz.thawed_writes = (frz.frozen_writes \div ThawEvery)
            + (IF frz.pc = "returned" /\ frz.result # "Ok" THEN 1 ELSE 0)
\* A write of THAWED happens in a 50th iteration, together with its write of
\* FROZEN, or after the loop on an error.
FrzThawedOnlyThere ==
    [][(frz'.thawed_writes # frz.thawed_writes /\ frz.target = "Frozen") =>
          \/ /\ frz.pc = "loop" /\ frz.i % ThawEvery = ThawEvery - 1
             /\ frz'.frozen_writes = frz.frozen_writes + 1
          \/ frz.pc = "after" /\ frz.r # "Ok"]_vars
\* The error returned is the one of the loop.
FrzOriginalError ==
    (frz.pc = "returned" /\ frz.target = "Frozen") => frz.result = frz.r
\* A success before the 50th iteration: no write of THAWED, FROZEN is the
\* last value written.
FrzEarlySuccess ==
    (frz.pc = "returned" /\ frz.target = "Frozen" /\ frz.result = "Ok"
        /\ frz.frozen_writes < ThawEvery) =>
        frz.thawed_writes = 0 /\ frz.last_written = "FROZEN"

\* C27: with target Frozen, THAWED is written only at every 50th iteration,
\* before that iteration's write of FROZEN, and once after the loop when the
\* result is an error; the error returned is the original one even when that
\* last write of THAWED fails; a run that succeeds before the 50th iteration
\* (reads FREEZING, FREEZING, FROZEN) writes no THAWED and ends with FROZEN
\* as the last value written.
C27_ThawedWrites ==
    /\ [](FrzThawedCount /\ FrzOriginalError /\ FrzEarlySuccess)
    /\ FrzThawedOnlyThere
\* The reads FREEZING, FREEZING, FROZEN: success at iteration 3.
C27_FrozenAtThirdRead ==
    /\ frz.pc = "returned" /\ frz.result = "Ok"
    /\ frz.reads = 3 /\ frz.freezing_reads = 2
    /\ frz.thawed_writes = 0 /\ frz.last_written = "FROZEN"
\* Further cases the model reaches: an error after a 50th iteration whose
\* last write of THAWED did not go through.
FrzErrorAfterThaw ==
    /\ frz.pc = "returned" /\ frz.result = "UnexpectedState"
    /\ frz.thawed_writes = 2 /\ frz.last_written = "FROZEN"

\* ---------------------------------------------------------------------
\* The order in which the namespaces are entered
\* ---------------------------------------------------------------------
\* USER, PID, UTS, IPC, NET, CGROUP, MOUNT
NsRank(flag) ==
    CASE flag = "CLONE_NEWUSER" -> 1 [] flag = "CLONE_NEWPID" -> 2
      [] flag = "CLONE_NEWUTS" -> 3 [] flag = "CLONE_NEWIPC" -> 4
      [] flag = "CLONE_NEWNET" -> 5 [] flag = "CLONE_NEWCGROUP" -> 6
      [] flag = "CLONE_NEWNS" -> 7
NsTypeOf(flag) ==
    CASE flag = "CLONE_NEWUSER" -> "User" [] flag = "CLONE_NEWPID" -> "Pid"
      [] flag = "CLONE_NEWUTS" -> "Uts" [] flag = "CLONE_NEWIPC" -> "Ipc"
      [] flag = "CLONE_NEWNET" -> "Network" [] flag = "CLONE_NEWCGROUP" -> "Cgroup"
      [] flag = "CLONE_NEWNS" -> "Mount"
\* The namespaces of the spec of the type of a flag.
NsListed(flag) ==
    {i \in 1..Len(ns.namespaces) : ns.namespaces[i].typ = NsTypeOf(flag)}
\* The flags that are configured and selected by the filter.
NsSelected == {f \in ns.filter : NsListed(f) # {}}
NsEntered == {ns.entered[i].flag : i \in 1..Len(ns.entered)}
\* Entered in the fixed order, each type at most once.
NsInOrder ==
    \A i, j \in 1..Len(ns.entered) :
        i < j => NsRank(ns.entered[i].flag) < NsRank(ns.entered[j].flag)
\* Only selected namespaces are entered, none of them is passed over.
NsNoneSkipped ==
    /\ NsEntered \subseteq NsSelected
    /\ \A f \in NsSelected, g \in NsEntered :
           NsRank(f) < NsRank(g) => f \in NsEntered
    /\ ns.result = "Ok" => NsEntered = NsSelected
\* setns with a path, unshare without: the last namespace of the type in
\* the spec counts.
NsCallByPath ==
    \A i \in 1..Len(ns.entered) :
        LET counted == CHOOSE k \in NsListed(ns.entered[i].flag) :
                           \A l \in NsListed(ns.entered[i].flag) : l <= k
        IN  ns.entered[i].call = IF ns.namespaces[counted].path THEN "setns"
                                 ELSE "unshare"
\* After a failure no namespace is entered any more.
NsStopsAtFailure ==
    [][ns.result \notin {"-", "Ok"} => ns'.entered = ns.entered]_vars

\* C28: apply_namespaces enters the configured namespaces selected by the
\* filter in the order USER, PID, UTS, IPC, NET, CGROUP, MOUNT whatever the
\* order of the spec, each type at most once, by setns on the opened path
\* when the namespace has a path and by unshare otherwise, and stops at the
\* first failure without entering a later namespace.
C28_NamespaceOrder ==
    /\ [](NsInOrder /\ NsNoneSkipped /\ NsCallByPath)
    /\ NsStopsAtFailure
\* The spec lists the mount namespace before the user namespace; both were
\* entered, the user namespace first.
C28_UserBeforeMount ==
    /\ ns.pc = "returned" /\ ns.result = "Ok"
    /\ Len(ns.namespaces) = 2 /\ ns.namespaces[1].typ = "Mount"
    /\ ns.namespaces[2].typ = "User"
    /\ Len(ns.entered) = 2 /\ ns.entered[1].flag = "CLONE_NEWUSER"
    /\ ns.entered[1].call = "setns" /\ ns.entered[2].call = "unshare"
\* Further cases the model reaches: a failure of the first namespace with
\* the second one never entered; a type listed twice entered once.
NsFailedAtFirst ==
    /\ ns.pc = "returned" /\ ns.result = "unshare" /\ ns.entered = <<>>
    /\ Cardinality(NsSelected) = 2
NsListedTwiceEnteredOnce ==
    /\ ns.result = "Ok" /\ Len(ns.namespaces) = 2
    /\ ns.namespaces[1].typ = "Pid" /\ ns.namespaces[2].typ = "Pid"
    /\ Len(ns.entered) = 1

\* ---------------------------------------------------------------------
\* The flags of two lists of mount options, one after the other
\* ---------------------------------------------------------------------
\* Both lists are accepted by parse_mount.
MntAccepted == mnt.pc = "done" /\ mnt.r1.err = "-" /\ mnt.r2.err = "-"
\* The flags cleared by an option of the list.
ClearedBy(opts) ==
    UNION {unwrap(mount_option(opts[i])).flag :
             i \in {j \in 1..Len(opts) : /\ mount_option(opts[j]) # None
                                         /\ unwrap(mount_option(opts[j])).is_clear}}
\* C29 as stated: the flags of opts1 followed by opts2 are
\* (flags(opts1) | flags(opts2)) without every flag cleared by an option of
\* opts2.
C29_FlagsOfConcatenation ==
    MntAccepted =>
        mnt.r12.flags = (mnt.r1.flags \cup mnt.r2.flags) \ ClearedBy(mnt.opts2)
\* C29, amended: the flags of opts1 followed by opts2 are the flags of opts1
\* without every flag cleared by an option of opts2, together with the flags
\* of opts2; a flag that opts2 clears and later sets again is set.
C29_FlagsOfConcatenationAmended ==
    MntAccepted =>
        /\ mnt.r12.err = "-"
        /\ mnt.r12.flags = (mnt.r1.flags \ ClearedBy(mnt.opts2)) \cup mnt.r2.flags
\* opts1 sets read-only, opts2 clears it and sets it again: it is set.
C29_ClearedAndSetAgain ==
    /\ mnt.pc = "done" /\ mnt.opts1 = <<"ro">> /\ mnt.opts2 = <<"rw", "ro">>
    /\ mnt.r12.flags = {"MS_RDONLY"}
\* Further cases the model reaches: `rw` in opts2 removes the flag of opts1.
MntClearedByOpts2 ==
    /\ mnt.pc = "done" /\ mnt.opts1 = <<"ro", "rbind">> /\ mnt.opts2 = <<"rw">>
    /\ mnt.r12.flags = {"MS_BIND", "MS_REC"}

\* ---------------------------------------------------------------------
\* The umask after create_devices
\* ---------------------------------------------------------------------
\* C30: when create_devices returns, with Ok or with an error such as
\* InvalidDevicePath or a failed bind or mknod of a device, the umask of the
\* process is what it was before the call.
C30_UmaskRestored ==
    umask.pc = "returned" => umask.umask = umask.before
\* What holds: the umask is restored when create_devices returns Ok, and it
\* is 0 after every error.
UmaskRestoredOnOk ==
    (umask.pc = "returned" /\ umask.result = "Ok") => umask.umask = umask.before
UmaskZeroAfterError ==
    (umask.pc = "returned" /\ umask.result # "Ok") => umask.umask = 0
\* create_devices has returned InvalidDevicePath with the umask changed.
UmaskLostOnInvalidPath ==
    /\ umask.pc = "returned" /\ umask.result = "InvalidDevicePath"
    /\ umask.before = 18 /\ umask.umask = 0

====
